---- MODULE Spec2Model ----
(***************************************************************************)
(* Packkit: LAN-local npm registry proxy.                                  *)
(*                                                                         *)
(* The module models the registry proxy of backend/server.js (tarball      *)
(* route with the downloadLocks single-flight map, metadata route with     *)
(* its offline fallback), the precache route and the integrity verifier    *)
(* (verifyPackageIntegrity and its helpers).                               *)
(*                                                                         *)
(* The repository carries two builds of the server that differ in the      *)
(* version regex, in the offline rewrite and in the presence of            *)
(* POST /api/precache; the variable build selects the one that runs.       *)
(***************************************************************************)
EXTENDS Integers, Sequences, FiniteSets, TLC

\* ------------------------------------------------------------------ bounds
MaxTarballReqs == 3
MaxMixedReqs == 1
MaxPrecacheReqs == 1
MaxMetaReqs == 2
FileLen == 1
MaxFaults == 2
MaxIngests == 2
MaxSearches == 1
MaxTopK == 3
MaxChatReqs == 2
MaxDocs == 2
MaxTextLen == 5
MaxChunkSize == 4

Builds == {"server_js", "part_004"}

Tar == 1..MaxTarballReqs
Pre == (MaxTarballReqs + 1)..(MaxTarballReqs + MaxPrecacheReqs)
Ctx == Tar \cup Pre
MetaReqs == 1..MaxMetaReqs

NoLock == 0
Null == "null"
Undefined == "undefined"

\* A tarball filename as the pieces the version regex looks at.
Files == {<<"pkg", "-", "1.0", ".tgz">>}
VersionTokens == {"1.0"}
PkgName == "pkg"

\* Upstream tarball bodies: the published bytes, and a tampered body that
\* differs from them in its last chunk.
GoodContent == [i \in 1..FileLen |-> 1]
BadContent == [i \in 1..FileLen |-> IF i = FileLen THEN 2 ELSE 1]
Contents == {GoodContent, BadContent}

VARIABLES
  build,           \* which build of the server runs
  disk,            \* CACHE_DIR: filename -> [exists, data]
  downloadLocks,   \* filename -> handler whose promise is stored, or NoLock
  promise,         \* handler -> state of the download promise it created
  waitq,           \* promise owner -> handlers awaiting it, in await order
  pc,              \* position of every handler
  fname,           \* handler -> filename of its request
  wr,              \* handler -> its fs.createWriteStream
  resp,            \* handler -> what its client has received
  ver,             \* handler -> state of its verifyPackageIntegrity call
  securityLog,     \* SecurityLog collection: handler -> the events it inserted
  packages,        \* Package collection: handler -> the records it inserted
  documentation,   \* package names that have a Documentation record
  unhandled,       \* a promise rejection or handler exception nobody caught
  targetVersion,   \* precache handler -> version || meta['dist-tags'].latest
  metaStore,       \* CACHE_DIR/<name>.json: the persisted document, if any
  faults,          \* failures of the environment so far
  mpc,             \* position of every metadata handler
  mhost,           \* metadata handler -> req.headers.host
  mdoc,            \* metadata handler -> its rewritten upstream document
  mresp            \* metadata handler -> its response

VARIABLES
  now,             \* Date.now(), in hours
  cache,           \* Cache collection: question hash -> entry
  embeddingCache,  \* EmbeddingCache collection: text hash -> entry
  chunks,          \* Chunk collection, in insertion order
  nextId,          \* the next _id the database assigns
  ipc,             \* position of every storeDocumentWithEmbeddings call
  iname,           \* ingest -> packageName
  ichunks,         \* ingest -> chunkDocument(fullText)
  ii,              \* ingest -> loop index i
  hpc,             \* position of every hybridSearch call
  hq,              \* search -> question
  hk,              \* search -> topK
  hqe,             \* search -> the embedding of its question
  hvec,            \* search -> vectorResults
  hres,            \* search -> the array returned
  cpc,             \* position of every /api/chat handler
  cq,              \* chat handler -> req.body.question
  cchunks,         \* chat handler -> relevantChunks
  cresp,           \* chat handler -> its response
  ccalls           \* chat handler -> retrieval and LLM calls it made

VARIABLES
  kpc,             \* position of the chunkDocument call
  ktext,           \* its argument text, a sequence of code units
  ksize,           \* its argument chunkSize
  koverlap,        \* its argument overlap
  kchunks          \* the array it returned

chunkerVars == <<kpc, ktext, ksize, koverlap, kchunks>>
ingestVars == <<chunks, nextId, ipc, iname, ichunks, ii>>
searchVars == <<hpc, hq, hk, hqe, hvec, hres>>
chatVars == <<now, cache, cpc, cq, cchunks, cresp, ccalls>>
ragVars == <<ingestVars, searchVars, chatVars, embeddingCache, chunkerVars>>

vars == <<build, disk, downloadLocks, promise, waitq, pc, fname, wr, resp,
          ver, securityLog, packages, documentation, unhandled,
          targetVersion, metaStore,
          faults, mpc, mhost, mdoc, mresp, ragVars>>

metaVars == <<mpc, mhost, mdoc, mresp>>
proxyVars == <<build, disk, downloadLocks, promise, waitq, pc, fname, wr, resp,
               ver, securityLog, packages, documentation, unhandled,
               targetVersion>>

\* ---------------------------------------------------------------- helpers

\* filename.match(/-[\d.]+(?:-[\w.]+)?\.tgz$/): the name ends with
\* "-<version>.tgz".
VersionMatch(fn) ==
  /\ Len(fn) >= 3
  /\ fn[Len(fn)] = ".tgz"
  /\ fn[Len(fn) - 1] \in VersionTokens
  /\ fn[Len(fn) - 2] = "-"

\* server.js: the regex has no capture group, so versionMatch[1] is undefined.
versionOf_server_js(fn) == IF VersionMatch(fn) THEN Undefined ELSE Null

\* part_004: the version is captured by group 1.
versionOf_part_004(fn) == IF VersionMatch(fn) THEN fn[Len(fn) - 1] ELSE Null

versionOf(b, fn) ==
  IF b = "server_js" THEN versionOf_server_js(fn) ELSE versionOf_part_004(fn)

\* JavaScript truthiness of the version value, `if (version)`.
Truthy(v) == v \notin {Null, Undefined}

\* calculateChecksum: `${algorithm}-${hash.digest('base64')}`; the hash is
\* injective on the contents the model distinguishes.
calculateChecksum(data, algorithm) == <<algorithm, data>>

\* The hash algorithms an integrity string names in its prefix.
Algorithms == {"sha512", "sha1"}

\* versions[version].dist.integrity as published upstream, declared with
\* the given algorithm.
OfficialIntegrity(algorithm) == calculateChecksum(GoodContent, algorithm)

\* A write stream writes its next chunk at its own offset; a gap left by a
\* truncation of the file reads as zero bytes.
RECURSIVE Pad(_, _)
Pad(data, n) == IF Len(data) >= n THEN data ELSE Pad(Append(data, 0), n)

WriteAt(data, pos, byte) ==
  IF pos <= Len(data) THEN [data EXCEPT ![pos] = byte]
  ELSE Append(Pad(data, pos - 1), byte)

NoWriter == [open |-> FALSE, live |-> FALSE, pos |-> 0, src |-> <<>>]
NoResp == [status |-> 0, body |-> <<>>, ended |-> FALSE, partial |-> FALSE]
\* An absent checksum, and the literal 'unknown' stored in its place.
NoSum == <<>>
UnknownSum == <<"unknown">>

\* An absent metadata document; a present one is <<doc>>.
NoDoc == <<>>

NoVer == [official |-> NoSum, actual |-> NoSum, result |-> Null]
NoFile == [exists |-> FALSE, data |-> <<>>]

Names == {PkgName}

\* A response without a streamed body.
PlainResp(status) ==
  [status |-> status, body |-> <<>>, ended |-> TRUE, partial |-> FALSE]

\* Some write stream on f is open and still attached to the directory entry.
BeingWritten(f) ==
  \E c \in Ctx : wr[c].open /\ wr[c].live /\ fname[c] = f

\* The environment fails at most MaxFaults times (a rejected request or
\* write, a stream error, a tampered body): a step that takes such a branch
\* counts it, any other step leaves the count alone.
Fault(failed) ==
  /\ failed => faults < MaxFaults
  /\ faults' = IF failed THEN faults + 1 ELSE faults

Last(s) == s[Len(s)]
Range(s) == {s[i] : i \in 1..Len(s)}

\* ------------------------------------------------- single-flight promises

\* What a handler would have sent if serving from disk began without a
\* status.
ServeOpen_unanswered(w, fn, f) ==
  [status |-> 0, body |-> <<>>, ended |-> FALSE,
   partial |-> \E c \in Ctx : w[c].open /\ w[c].live /\ fn[c] = f]

\* What a handler that starts serving f from disk has sent so far; partial
\* records that a write stream on f was still open when the file was opened.
ServeOpen(w, fn, f) ==
  [status |-> 200, body |-> <<>>, ended |-> FALSE,
   partial |-> \E c \in Ctx : w[c].open /\ w[c].live /\ fn[c] = f]

\* The handlers resumed from `await downloadLocks.get(filename)` when the
\* promise of o settles.
Resumed(o) == Range(waitq[o])

\* A resumed handler streams the file when the await did not throw and the
\* file exists; otherwise it falls through to its own download.
ResumedServe(outcome, f, d) == outcome = "resolved" /\ d[f].exists

\* The settling as it would be if only the handler that awaited first saw
\* the file and the others fell through to their own download.
Settle_firstWaiterOnly(o, outcome, f, d, w, pcBase, respBase) ==
  LET serve == ResumedServe(outcome, f, d)
      q == waitq[o]
      served == IF serve /\ q # <<>> THEN {q[1]} ELSE {}
  IN /\ promise' = [x \in Ctx |->
          IF x = o THEN outcome
          ELSE IF x \in Resumed(o) \ served THEN "pending"
          ELSE promise[x]]
     /\ downloadLocks' = [downloadLocks EXCEPT ![f] =
          IF Resumed(o) \ served # {} THEN Last(q) ELSE NoLock]
     /\ pc' = [x \in Ctx |->
          IF x \in served THEN "streaming"
          ELSE IF x \in Resumed(o) THEN "fetching"
          ELSE pcBase[x]]
     /\ resp' = [x \in Ctx |->
          IF x \in served THEN ServeOpen(w, fname, f)
          ELSE respBase[x]]
     /\ waitq' = [waitq EXCEPT ![o] = <<>>]
     /\ unhandled' = (unhandled \/ (outcome = "rejected" /\ q = <<>>))

\* The settling as it would be if a handler that fell through looked at the
\* map again and awaited the promise it found there.
Settle_awaitAgain(o, outcome, f, d, w, pcBase, respBase) ==
  LET serve == ResumedServe(outcome, f, d)
      q == waitq[o]
      again == IF serve \/ Len(q) < 2 THEN <<>> ELSE Tail(q)
  IN /\ promise' = [x \in Ctx |->
          IF x = o THEN outcome
          ELSE IF ~serve /\ q # <<>> /\ x = q[1] THEN "pending"
          ELSE promise[x]]
     /\ downloadLocks' = [downloadLocks EXCEPT ![f] =
          IF q # <<>> /\ ~serve THEN q[1] ELSE NoLock]
     /\ pc' = [x \in Ctx |->
          IF x \in Range(again) THEN "waiting"
          ELSE IF x \in Resumed(o)
          THEN (IF serve THEN "streaming" ELSE "fetching")
          ELSE pcBase[x]]
     /\ resp' = [x \in Ctx |->
          IF x \in Resumed(o) /\ serve THEN ServeOpen(w, fname, f)
          ELSE respBase[x]]
     /\ waitq' = [y \in Ctx |->
          IF y = o THEN <<>>
          ELSE IF again # <<>> /\ y = q[1] THEN waitq[y] \o again
          ELSE waitq[y]]
     /\ unhandled' = (unhandled \/ (outcome = "rejected" /\ q = <<>>))

\* The effects of settling the promise of o after the caller deleted the map
\* entry: every resumed handler runs, in await order, up to its next await.
Settle(o, outcome, f, d, w, pcBase, respBase) ==
  LET serve == ResumedServe(outcome, f, d)
      q == waitq[o]
  IN /\ promise' = [x \in Ctx |->
          IF x = o THEN outcome
          ELSE IF x \in Resumed(o) /\ ~serve THEN "pending"
          ELSE promise[x]]
     /\ downloadLocks' = [downloadLocks EXCEPT ![f] =
          IF q # <<>> /\ ~serve THEN Last(q) ELSE NoLock]
     /\ pc' = [x \in Ctx |->
          IF x \in Resumed(o)
          THEN (IF serve THEN "streaming" ELSE "fetching")
          ELSE pcBase[x]]
     /\ resp' = [x \in Ctx |->
          IF x \in Resumed(o) /\ serve THEN ServeOpen(w, fname, f)
          ELSE respBase[x]]
     /\ waitq' = [waitq EXCEPT ![o] = <<>>]
     /\ unhandled' = (unhandled \/ (outcome = "rejected" /\ q = <<>>))

\* ------------------------------------------- GET /:name/-/:filename (tarball)

\* The handler up to its first await: cache hit, wait on a peer, or register
\* an own download and issue the upstream request.
Receive(r, f) ==
  /\ Fault(FALSE)
  /\ UNCHANGED <<metaVars, targetVersion, ragVars>>
  /\ r \in Tar
  /\ pc[r] = "idle"
  /\ \A q \in Tar : q < r => pc[q] # "idle"
  /\ fname' = [fname EXCEPT ![r] = f]
  /\ IF disk[f].exists
     THEN /\ pc' = [pc EXCEPT ![r] = "streaming"]
          /\ resp' = [resp EXCEPT ![r] = ServeOpen(wr, fname, f)]
          /\ UNCHANGED <<downloadLocks, promise, waitq>>
     ELSE IF downloadLocks[f] # NoLock
     THEN /\ pc' = [pc EXCEPT ![r] = "waiting"]
          /\ waitq' = [waitq EXCEPT ![downloadLocks[f]] = Append(@, r)]
          /\ UNCHANGED <<downloadLocks, promise, resp>>
     ELSE /\ pc' = [pc EXCEPT ![r] = "fetching"]
          /\ promise' = [promise EXCEPT ![r] = "pending"]
          /\ downloadLocks' = [downloadLocks EXCEPT ![f] = r]
          /\ UNCHANGED <<waitq, resp>>
  /\ UNCHANGED <<build, disk, wr, ver, securityLog, packages, documentation,
                 unhandled, metaStore>>

\* The file is streamed to the client: the read stream reaches the end of
\* the file as it is at that moment.
ServeEnd(r) ==
  /\ Fault(FALSE)
  /\ UNCHANGED <<metaVars, targetVersion, ragVars>>
  /\ r \in Tar
  /\ pc[r] = "streaming"
  /\ pc' = [pc EXCEPT ![r] = "done"]
  /\ resp' = [resp EXCEPT ![r].ended = TRUE,
                          ![r].body = IF disk[fname[r]].exists
                                      THEN disk[fname[r]].data ELSE @]
  /\ UNCHANGED <<build, disk, downloadLocks, promise, waitq, fname, wr, ver,
                 securityLog, packages, documentation, unhandled,
                 metaStore>>

\* axios rejects: the catch block removes the map entry, rejects the promise
\* and answers 500.
UpstreamFails(r) ==
  /\ Fault(TRUE)
  /\ UNCHANGED <<metaVars, targetVersion, ragVars>>
  /\ r \in Tar
  /\ pc[r] = "fetching"
  /\ Settle(r, "rejected", fname[r], disk, wr,
            [pc EXCEPT ![r] = "done"],
            [resp EXCEPT ![r] = [status |-> 500, body |-> <<>>,
                                 ended |-> TRUE, partial |-> FALSE]])
  /\ UNCHANGED <<build, disk, fname, wr, ver, securityLog, packages,
                 documentation, metaStore>>

\* The pipes as they would be if the close of the response stopped the
\* upstream body for the writer too.
Piped_untilClose(r) == pc[r] = "teeing"

\* The upstream body flows into the writer: both pipes are in place, or the
\* response closed and pipe() removed only that destination.
Piped(r) == pc[r] \in {"teeing", "file_only"}

\* axios resolves with the response stream: the file is created (or
\* truncated) and the body is piped to the client and to the file.
UpstreamResponds(r, body) ==
  /\ Fault(body # GoodContent)
  /\ UNCHANGED <<metaVars, targetVersion, ragVars>>
  /\ r \in Tar
  /\ pc[r] = "fetching"
  /\ pc' = [pc EXCEPT ![r] = "teeing"]
  /\ disk' = [disk EXCEPT ![fname[r]] = [exists |-> TRUE, data |-> <<>>]]
  /\ wr' = [wr EXCEPT ![r] = [open |-> TRUE, live |-> TRUE, pos |-> 0,
                              src |-> body]]
  /\ resp' = [resp EXCEPT ![r] = [status |-> 200, body |-> <<>>,
                                  ended |-> FALSE, partial |-> FALSE]]
  /\ UNCHANGED <<build, downloadLocks, promise, waitq, fname, ver,
                 securityLog, packages, documentation, unhandled,
                 metaStore>>

\* One chunk of the upstream body reaches both sinks; the client has
\* received the first wr[r].pos chunks of the body.
TeeChunk(r) ==
  /\ Fault(FALSE)
  /\ UNCHANGED <<metaVars, targetVersion, ragVars>>
  /\ r \in Tar
  /\ Piped(r)
  /\ wr[r].pos < FileLen
  /\ LET p == wr[r].pos + 1
         f == fname[r]
     IN /\ wr' = [wr EXCEPT ![r].pos = p]
        /\ disk' = IF wr[r].live
                   THEN [disk EXCEPT ![f].data = WriteAt(@, p, wr[r].src[p])]
                   ELSE disk
  /\ UNCHANGED <<build, downloadLocks, promise, waitq, pc, fname, resp, ver,
                 securityLog, packages, documentation, unhandled,
                 metaStore>>

\* End of the upstream body: the response ends and the writer emits
\* 'finish'; its handler removes the map entry, resolves the promise and
\* goes on to verification or to the unverified Package record.
Finish(r) ==
  /\ Fault(FALSE)
  /\ UNCHANGED <<metaVars, targetVersion, ragVars>>
  /\ r \in Tar
  /\ Piped(r)
  /\ wr[r].pos = FileLen
  /\ LET w == [wr EXCEPT ![r].open = FALSE]
     IN /\ wr' = w
        /\ Settle(r, "resolved", fname[r], disk, w,
                  [pc EXCEPT ![r] =
                     IF Truthy(versionOf(build, fname[r]))
                     THEN "v_official" ELSE "pkg_create"],
                  IF pc[r] = "teeing"
                  THEN [resp EXCEPT ![r].ended = TRUE, ![r].body = wr[r].src]
                  ELSE resp)
  /\ UNCHANGED <<build, disk, fname, ver, securityLog, packages,
                 documentation, metaStore>>

\* The writer emits 'error': its handler removes the map entry and rejects
\* the promise; the pipe to the client goes on.
WriterError(r) ==
  /\ Fault(TRUE)
  /\ UNCHANGED <<metaVars, targetVersion, ragVars>>
  /\ r \in Tar
  /\ Piped(r)
  /\ LET w == [wr EXCEPT ![r].open = FALSE]
     IN /\ wr' = w
        /\ Settle(r, "rejected", fname[r], disk, w,
                  [pc EXCEPT ![r] =
                     IF pc[r] = "teeing" THEN "res_only" ELSE "done"],
                  resp)
  /\ UNCHANGED <<build, disk, fname, ver, securityLog, packages,
                 documentation, metaStore>>

\* The client closes the connection during the tee: res emits 'close',
\* pipe() unpipes res from the upstream body, and the pipe to the writer
\* stays; the handler listens for 'close' on neither req nor res and does
\* not abort the axios request. The client keeps the chunks it had received.
ClientDisconnect(r) ==
  /\ Fault(TRUE)
  /\ UNCHANGED <<metaVars, targetVersion, ragVars>>
  /\ r \in Tar
  /\ pc[r] = "teeing"
  /\ pc' = [pc EXCEPT ![r] = "file_only"]
  /\ resp' = [resp EXCEPT ![r].body = SubSeq(wr[r].src, 1, wr[r].pos)]
  /\ UNCHANGED <<build, disk, downloadLocks, promise, waitq, fname, wr, ver,
                 securityLog, packages, documentation, unhandled,
                 metaStore>>

\* After a writer error the rest of the body still reaches the client.
ResEnd(r) ==
  /\ Fault(FALSE)
  /\ UNCHANGED <<metaVars, targetVersion, ragVars>>
  /\ r \in Tar
  /\ pc[r] = "res_only"
  /\ pc' = [pc EXCEPT ![r] = "done"]
  /\ resp' = [resp EXCEPT ![r].body = wr[r].src, ![r].ended = TRUE]
  /\ UNCHANGED <<build, disk, downloadLocks, promise, waitq, fname, wr, ver,
                 securityLog, packages, documentation, unhandled,
                 metaStore>>

\* The upstream body stream errors after the headers: pipe() ends neither
\* sink, no 'finish' and no 'error' is emitted by the writer, and nothing in
\* the handler listens on the source.
BodyError(r) ==
  /\ Fault(TRUE)
  /\ UNCHANGED <<metaVars, targetVersion, ragVars>>
  /\ r \in Tar
  /\ Piped(r) \/ pc[r] = "res_only"
  /\ pc' = [pc EXCEPT ![r] = "stuck"]
  /\ UNCHANGED <<build, disk, downloadLocks, promise, waitq, fname, wr, resp,
                 ver, securityLog, packages, documentation, unhandled,
                 metaStore>>

\* Package.create after the download, then Documentation.exists and the
\* scrape it starts when the package has no docs (scraped: scrapeDocs
\* returned content). A rejected write is thrown inside the 'finish'
\* listener, where nothing catches it.
PkgCreate(r, ok, scraped) ==
  /\ Fault(~ok)
  /\ UNCHANGED <<metaVars, targetVersion, ragVars>>
  /\ r \in Tar
  /\ pc[r] = "pkg_create"
  /\ pc' = [pc EXCEPT ![r] = "done"]
  /\ LET version == versionOf(build, fname[r])
         rec == IF Truthy(version)
                THEN [name |-> PkgName, version |-> version,
                      cachedPath |-> fname[r],
                      integrity |-> ver[r].actual, verified |-> TRUE]
                ELSE [name |-> PkgName, version |-> version,
                      cachedPath |-> fname[r],
                      integrity |-> UnknownSum, verified |-> FALSE]
     IN IF ok
        THEN /\ packages' = [packages EXCEPT ![r] = Append(@, rec)]
             /\ documentation' = IF PkgName \notin documentation /\ scraped
                                 THEN documentation \cup {PkgName}
                                 ELSE documentation
             /\ UNCHANGED unhandled
        ELSE /\ unhandled' = TRUE
             /\ UNCHANGED <<packages, documentation>>
  /\ UNCHANGED <<build, disk, downloadLocks, promise, waitq, fname, wr, resp,
                 ver, securityLog, metaStore>>

\* ------------------------------------------------------ strings and URLs
\* A string is the sequence of the pieces the code's string operations can
\* tell apart: a scheme with its "://", the pieces of an authority, "/",
\* and a path.

HostTokens == {"registry.npmjs.org", "mirror.example", "localhost", ":4873",
               "lan"}
SlashFree(t) == t \in HostTokens

\* String.prototype.indexOf: position of the first occurrence, 0 for none.
IndexOf(s, pat) ==
  LET hits == {i \in 1..(Len(s) - Len(pat) + 1) :
                 SubSeq(s, i, i + Len(pat) - 1) = pat}
  IN IF hits = {} THEN 0 ELSE CHOOSE i \in hits : \A j \in hits : i <= j

\* String.prototype.includes.
Includes(s, pat) == IndexOf(s, pat) # 0

\* String.prototype.replace with a string pattern: the first occurrence only.
ReplaceString(s, pat, rep) ==
  LET i == IndexOf(s, pat)
  IN IF i = 0 THEN s
     ELSE SubSeq(s, 1, i - 1) \o rep \o SubSeq(s, i + Len(pat), Len(s))

\* String.prototype.replace with /<scheme>:\/\/[^\/]+/ for the schemes the
\* regex admits: the first scheme followed by at least one character other
\* than "/", up to the longest run of such characters.
RECURSIVE RunEnd(_, _)
RunEnd(s, i) == IF i < Len(s) /\ SlashFree(s[i + 1]) THEN RunEnd(s, i + 1) ELSE i

\* The same replacement with the regex cut short to /<scheme>:\/\//: the
\* authority that follows the scheme is kept.
ReplaceSchemeOnly(s, schemes, rep) ==
  LET hits == {i \in 1..Len(s) : s[i] \in schemes}
  IN IF hits = {} THEN s
     ELSE LET i == CHOOSE k \in hits : \A j \in hits : k <= j
          IN SubSeq(s, 1, i - 1) \o rep \o SubSeq(s, i + 1, Len(s))

ReplaceAuthority(s, schemes, rep) ==
  LET hits == {i \in 1..(Len(s) - 1) : s[i] \in schemes /\ SlashFree(s[i + 1])}
  IN IF hits = {} THEN s
     ELSE LET i == CHOOSE k \in hits : \A j \in hits : k <= j
          IN SubSeq(s, 1, i - 1) \o rep \o SubSeq(s, RunEnd(s, i) + 1, Len(s))

UPSTREAM_URL == <<"https://", "registry.npmjs.org">>

\* `http://localhost:${PORT}`
LocalhostUrl == <<"http://", "localhost", ":4873">>

\* `http://${req.headers.host}`
HostUrl(host) == <<"http://">> \o host

\* Versions of the package in the upstream document and the path of each
\* tarball.
DocVersions == {"1.0"}
TarballPath(v) == "pkg/-/pkg-1.0.tgz"

\* dist.tarball as upstream may declare it: under the registry base URL,
\* under the registry's plain-http address, or on another host.
UpstreamTarballUrls(v) ==
  {UPSTREAM_URL \o <<"/", TarballPath(v)>>,
   <<"http://", "registry.npmjs.org", "/", TarballPath(v)>>,
   <<"https://", "mirror.example", "/", TarballPath(v)>>}

\* A metadata document, reduced to versions[v].dist.tarball.
UpstreamDocs == {d \in [DocVersions -> UNION {UpstreamTarballUrls(v) : v \in DocVersions}] :
                   \A v \in DocVersions : d[v] \in UpstreamTarballUrls(v)}

LatestVersion == "1.0"

\* tarballUrl.split('/').pop(), as the filename the tarball route would see.
FilenameOf(url) ==
  CHOOSE f \in Files : Last(url) = "pkg/-/pkg-1.0.tgz"

\* The rewrite done before a document is persisted or returned online.
RewriteOnline(doc, target) ==
  [v \in DOMAIN doc |-> ReplaceString(doc[v], UPSTREAM_URL, target)]

\* --------------------------------------------------- verifyPackageIntegrity
\* A verification runs inside the handler that called it: the 'finish'
\* listener of a tarball download, or a precache request.

\* The version the caller passes.
VerVersion(c) == IF c \in Tar THEN versionOf(build, fname[c]) ELSE LatestVersion

VerifySteps == {"v_official", "v_remove", "v_log_success",
                "v_log_threat", "v_catch"}

\* Where the caller goes when verifyPackageIntegrity returns or throws.
AfterVerify(c, result) ==
  IF c \in Tar
  THEN (IF result = "verified" THEN "pkg_create" ELSE "done")
  ELSE (IF result = "threw" THEN "done" ELSE "p_pkg")

SecurityEvent(c, eventType, checksum, expected) ==
  [by |-> c, packageName |-> PkgName, version |-> VerVersion(c),
   eventType |-> eventType, checksum |-> checksum,
   expectedChecksum |-> expected]

\* verifyPackageIntegrity as it would be if a missing integrity were handled
\* as a mismatch.
VHash_absentIsThreat(c, ok, algorithm) ==
  /\ Fault(~ok)
  /\ UNCHANGED <<metaVars, targetVersion, ragVars>>
  /\ pc[c] = "v_official"
  /\ LET f == fname[c]
         official == OfficialIntegrity(algorithm)
         actual == calculateChecksum(disk[f].data, "sha512")
     IN IF ~ok
        THEN /\ pc' = [pc EXCEPT ![c] = "v_remove"]
             /\ UNCHANGED ver
        ELSE IF ~disk[f].exists
        THEN /\ pc' = [pc EXCEPT ![c] = "v_catch"]
             /\ ver' = [ver EXCEPT ![c].official = official]
        ELSE /\ ver' = [ver EXCEPT ![c].official = official,
                                   ![c].actual = actual]
             /\ pc' = [pc EXCEPT ![c] =
                         IF official = actual
                         THEN "v_log_success" ELSE "v_remove"]
  /\ UNCHANGED <<build, disk, downloadLocks, promise, waitq, fname, wr, resp,
                 securityLog, packages, documentation, unhandled, metaStore>>

\* getOfficialChecksum (the metadata fetch succeeds and carries an integrity
\* for the version, or it throws), then calculateChecksum of the file as it
\* is now (a missing file makes the read stream fail) and the comparison.
VHash(c, ok, algorithm) ==
  /\ Fault(~ok)
  /\ UNCHANGED <<metaVars, targetVersion, ragVars>>
  /\ pc[c] = "v_official"
  /\ LET f == fname[c]
         official == OfficialIntegrity(algorithm)
         actual == calculateChecksum(disk[f].data, "sha512")
     IN IF ~ok
        THEN /\ pc' = [pc EXCEPT ![c] = "v_catch"]
             /\ UNCHANGED ver
        ELSE IF ~disk[f].exists
        THEN /\ pc' = [pc EXCEPT ![c] = "v_catch"]
             /\ ver' = [ver EXCEPT ![c].official = official]
        ELSE /\ ver' = [ver EXCEPT ![c].official = official,
                                   ![c].actual = actual]
             /\ pc' = [pc EXCEPT ![c] =
                         IF official = actual
                         THEN "v_log_success" ELSE "v_remove"]
  /\ UNCHANGED <<build, disk, downloadLocks, promise, waitq, fname, wr, resp,
                 securityLog, packages, documentation, unhandled, metaStore>>

\* handleVerificationFailure, first half: fs.remove when the file exists; a
\* failed removal is caught and ignored.
VRemove(c, ok) ==
  /\ Fault(~ok /\ disk[fname[c]].exists)
  /\ UNCHANGED <<metaVars, targetVersion, ragVars>>
  /\ pc[c] = "v_remove"
  /\ pc' = [pc EXCEPT ![c] = "v_log_threat"]
  /\ LET f == fname[c]
     IN IF disk[f].exists /\ ok
        THEN /\ disk' = [disk EXCEPT ![f] = NoFile]
             /\ wr' = [x \in Ctx |->
                         IF wr[x].open /\ fname[x] = f
                         THEN [wr[x] EXCEPT !.live = FALSE] ELSE wr[x]]
        ELSE UNCHANGED <<disk, wr>>
  /\ UNCHANGED <<build, downloadLocks, promise, waitq, fname, resp, ver,
                 securityLog, packages, documentation, unhandled, metaStore>>

\* SecurityLog.create of the success event, then the return.
VLogSuccess(c, ok) ==
  /\ Fault(~ok)
  /\ UNCHANGED <<metaVars, targetVersion, ragVars>>
  /\ pc[c] = "v_log_success"
  /\ IF ok
     THEN /\ securityLog' = [securityLog EXCEPT ![c] = Append(@,
               SecurityEvent(c, "success", ver[c].actual, ver[c].official))]
          /\ ver' = [ver EXCEPT ![c].result = "verified"]
          /\ pc' = [pc EXCEPT ![c] = AfterVerify(c, "verified")]
     ELSE /\ pc' = [pc EXCEPT ![c] = "v_catch"]
          /\ UNCHANGED <<securityLog, ver>>
  /\ UNCHANGED <<build, disk, downloadLocks, promise, waitq, fname, wr, resp,
                 packages, documentation, unhandled, metaStore>>

\* handleVerificationFailure, second half: SecurityLog.create of the
\* threat_detected event, then the return of {verified: false, threat: true}.
VLogThreat(c, ok) ==
  /\ Fault(~ok)
  /\ UNCHANGED <<metaVars, targetVersion, ragVars>>
  /\ pc[c] = "v_log_threat"
  /\ IF ok
     THEN /\ securityLog' = [securityLog EXCEPT ![c] = Append(@,
               SecurityEvent(c, "threat_detected", ver[c].actual,
                             ver[c].official))]
          /\ ver' = [ver EXCEPT ![c].result = "threat"]
          /\ pc' = [pc EXCEPT ![c] = AfterVerify(c, "threat")]
     ELSE /\ pc' = [pc EXCEPT ![c] = "v_catch"]
          /\ UNCHANGED <<securityLog, ver>>
  /\ UNCHANGED <<build, disk, downloadLocks, promise, waitq, fname, wr, resp,
                 packages, documentation, unhandled, metaStore>>

\* The catch block: SecurityLog.create of the failure event and the return
\* of {verified: false, error}; when this write is rejected too, the
\* function throws to its caller: nothing catches it in the 'finish'
\* listener, the precache route answers 500.
VCatch(c, ok) ==
  /\ Fault(~ok)
  /\ UNCHANGED <<metaVars, targetVersion, ragVars>>
  /\ pc[c] = "v_catch"
  /\ IF ok
     THEN /\ securityLog' = [securityLog EXCEPT ![c] = Append(@,
               SecurityEvent(c, "failure", NoSum, NoSum))]
          /\ ver' = [ver EXCEPT ![c].result = "error"]
          /\ pc' = [pc EXCEPT ![c] = AfterVerify(c, "error")]
          /\ UNCHANGED unhandled
     ELSE /\ ver' = [ver EXCEPT ![c].result = "threw"]
          /\ pc' = [pc EXCEPT ![c] = AfterVerify(c, "threw")]
          /\ unhandled' = (unhandled \/ c \in Tar)
          /\ UNCHANGED securityLog
  /\ resp' = IF c \in Pre /\ ~ok
             THEN [resp EXCEPT ![c] = PlainResp(500)] ELSE resp
  /\ UNCHANGED <<build, disk, downloadLocks, promise, waitq, fname, wr,
                 packages, documentation, metaStore>>

\* -------------------------------------------------------- POST /api/precache
\* Only the part_004 build has this route.

\* Property names every parsed JSON object inherits from Object.prototype.
PrototypeKeys == {"constructor"}

\* meta.versions[targetVersion] is truthy: an own version entry, or an
\* inherited property.
HasVersion(doc, v) == v \in DOMAIN doc \/ v \in PrototypeKeys

\* The values of req.body.version.
RequestVersions == {Undefined, "1.0", "9.9", "constructor"}

\* The route up to the tarball request. A request without packageName is
\* answered 400. The metadata request fails (500 through the catch block)
\* or returns doc; version is req.body.version. An unknown target version is
\* answered 404, a file already on disk "already cached"; otherwise the
\* tarball is requested from the URL the document declares. A target version
\* that names an inherited property passes the 404 test, and reading
\* versionData.dist.tarball throws: 500 through the catch block.
PrecacheReceive(p, hasName, ok, doc, version) ==
  /\ Fault(hasName /\ ~ok)
  /\ UNCHANGED <<metaVars, ragVars>>
  /\ p \in Pre
  /\ build = "part_004"
  /\ pc[p] = "idle"
  /\ \A q \in Pre : q < p => pc[q] # "idle"
  /\ LET target == IF Truthy(version) THEN version ELSE LatestVersion
     IN IF ~hasName \/ ~ok
        THEN /\ pc' = [pc EXCEPT ![p] = "done"]
             /\ resp' = [resp EXCEPT ![p] =
                           PlainResp(IF ~hasName THEN 400 ELSE 500)]
             /\ UNCHANGED <<fname, targetVersion>>
        ELSE /\ targetVersion' = [targetVersion EXCEPT ![p] = target]
             /\ IF ~HasVersion(doc, target)
                THEN /\ pc' = [pc EXCEPT ![p] = "done"]
                     /\ resp' = [resp EXCEPT ![p] = PlainResp(404)]
                     /\ UNCHANGED fname
                ELSE IF target \notin DOMAIN doc
                THEN /\ pc' = [pc EXCEPT ![p] = "done"]
                     /\ resp' = [resp EXCEPT ![p] = PlainResp(500)]
                     /\ UNCHANGED fname
                ELSE /\ fname' = [fname EXCEPT ![p] = FilenameOf(doc[target])]
                     /\ IF disk[FilenameOf(doc[target])].exists
                        THEN /\ pc' = [pc EXCEPT ![p] = "done"]
                             /\ resp' = [resp EXCEPT ![p] = PlainResp(200)]
                        ELSE /\ pc' = [pc EXCEPT ![p] = "p_fetch"]
                             /\ UNCHANGED resp
  /\ UNCHANGED <<build, disk, downloadLocks, promise, waitq, wr, ver,
                 securityLog, packages, documentation, unhandled, metaStore>>

\* The tarball request is rejected: 500 through the catch block.
PrecacheFetchFails(p) ==
  /\ Fault(TRUE)
  /\ UNCHANGED <<metaVars, targetVersion, ragVars>>
  /\ p \in Pre
  /\ pc[p] = "p_fetch"
  /\ pc' = [pc EXCEPT ![p] = "done"]
  /\ resp' = [resp EXCEPT ![p] = PlainResp(500)]
  /\ UNCHANGED <<build, disk, downloadLocks, promise, waitq, fname, wr, ver,
                 securityLog, packages, documentation, unhandled, metaStore>>

\* The tarball response arrives: the file is created (or truncated) and the
\* body is piped into it.
PrecacheResponds(p, body) ==
  /\ Fault(body # GoodContent)
  /\ UNCHANGED <<metaVars, targetVersion, ragVars>>
  /\ p \in Pre
  /\ pc[p] = "p_fetch"
  /\ pc' = [pc EXCEPT ![p] = "p_write"]
  /\ disk' = [disk EXCEPT ![fname[p]] = [exists |-> TRUE, data |-> <<>>]]
  /\ wr' = [wr EXCEPT ![p] = [open |-> TRUE, live |-> TRUE, pos |-> 0,
                              src |-> body]]
  /\ UNCHANGED <<build, downloadLocks, promise, waitq, fname, resp, ver,
                 securityLog, packages, documentation, unhandled, metaStore>>

PrecacheChunk(p) ==
  /\ Fault(FALSE)
  /\ UNCHANGED <<metaVars, targetVersion, ragVars>>
  /\ p \in Pre
  /\ pc[p] = "p_write"
  /\ wr[p].pos < FileLen
  /\ LET n == wr[p].pos + 1
         f == fname[p]
     IN /\ wr' = [wr EXCEPT ![p].pos = n]
        /\ disk' = IF wr[p].live
                   THEN [disk EXCEPT ![f].data = WriteAt(@, n, wr[p].src[n])]
                   ELSE disk
  /\ UNCHANGED <<build, downloadLocks, promise, waitq, pc, fname, resp, ver,
                 securityLog, packages, documentation, unhandled, metaStore>>

\* The writer emits 'finish': the awaited promise resolves.
PrecacheFinish(p) ==
  /\ Fault(FALSE)
  /\ UNCHANGED <<metaVars, targetVersion, ragVars>>
  /\ p \in Pre
  /\ pc[p] = "p_write"
  /\ wr[p].pos = FileLen
  /\ wr' = [wr EXCEPT ![p].open = FALSE]
  /\ pc' = [pc EXCEPT ![p] = "p_json"]
  /\ UNCHANGED <<build, disk, downloadLocks, promise, waitq, fname, resp, ver,
                 securityLog, packages, documentation, unhandled, metaStore>>

\* The writer emits 'error': the awaited promise rejects, 500 through the
\* catch block.
PrecacheWriterError(p) ==
  /\ Fault(TRUE)
  /\ UNCHANGED <<metaVars, targetVersion, ragVars>>
  /\ p \in Pre
  /\ pc[p] = "p_write"
  /\ wr' = [wr EXCEPT ![p].open = FALSE]
  /\ pc' = [pc EXCEPT ![p] = "done"]
  /\ resp' = [resp EXCEPT ![p] = PlainResp(500)]
  /\ UNCHANGED <<build, disk, downloadLocks, promise, waitq, fname, ver,
                 securityLog, packages, documentation, unhandled, metaStore>>

\* The tarball body stream errors: the writer emits neither event and the
\* handler waits for ever.
PrecacheBodyError(p) ==
  /\ Fault(TRUE)
  /\ UNCHANGED <<metaVars, targetVersion, ragVars>>
  /\ p \in Pre
  /\ pc[p] = "p_write"
  /\ pc' = [pc EXCEPT ![p] = "stuck"]
  /\ UNCHANGED <<build, disk, downloadLocks, promise, waitq, fname, wr, resp,
                 ver, securityLog, packages, documentation, unhandled,
                 metaStore>>

\* The metadata fetched at the start of the route (doc: every upstream
\* document names the same tarball file, and the URLs are first rewritten
\* here) is rewritten to http://localhost:PORT and persisted; a failed
\* write is answered 500 through the catch block.
PrecacheJson(p, ok, doc) ==
  /\ Fault(~ok)
  /\ UNCHANGED <<metaVars, targetVersion, ragVars>>
  /\ p \in Pre
  /\ pc[p] = "p_json"
  /\ IF ok
     THEN /\ metaStore' = [metaStore EXCEPT ![PkgName] =
                             <<RewriteOnline(doc, LocalhostUrl)>>]
          /\ pc' = [pc EXCEPT ![p] = "v_official"]
          /\ UNCHANGED resp
     ELSE /\ pc' = [pc EXCEPT ![p] = "done"]
          /\ resp' = [resp EXCEPT ![p] = PlainResp(500)]
          /\ UNCHANGED metaStore
  /\ UNCHANGED <<build, disk, downloadLocks, promise, waitq, fname, wr, ver,
                 securityLog, packages, documentation, unhandled>>

\* Package.create with whatever the verification returned; a rejected write
\* is answered 500 through the catch block.
PrecachePkg(p, ok) ==
  /\ Fault(~ok)
  /\ UNCHANGED <<metaVars, targetVersion, ragVars>>
  /\ p \in Pre
  /\ pc[p] = "p_pkg"
  /\ IF ok
     THEN /\ packages' = [packages EXCEPT ![p] = Append(@,
               [name |-> PkgName, version |-> VerVersion(p),
                cachedPath |-> fname[p],
                integrity |-> IF ver[p].result = "verified"
                              THEN ver[p].actual ELSE UnknownSum,
                verified |-> (ver[p].result = "verified")])]
          /\ pc' = [pc EXCEPT ![p] = "p_stat"]
          /\ UNCHANGED resp
     ELSE /\ pc' = [pc EXCEPT ![p] = "done"]
          /\ resp' = [resp EXCEPT ![p] = PlainResp(500)]
          /\ UNCHANGED packages
  /\ UNCHANGED <<build, disk, downloadLocks, promise, waitq, fname, wr, ver,
                 securityLog, documentation, unhandled, metaStore>>

\* fs.stat for the size in the answer; it throws when the file is gone.
PrecacheRespond(p) ==
  /\ Fault(FALSE)
  /\ UNCHANGED <<metaVars, targetVersion, ragVars>>
  /\ p \in Pre
  /\ pc[p] = "p_stat"
  /\ pc' = [pc EXCEPT ![p] = "done"]
  /\ resp' = [resp EXCEPT ![p] =
                PlainResp(IF disk[fname[p]].exists THEN 200 ELSE 500)]
  /\ UNCHANGED <<build, disk, downloadLocks, promise, waitq, fname, wr, ver,
                 securityLog, packages, documentation, unhandled, metaStore>>

\* ------------------------------------------------------------- GET /:name

\* The Host headers requests arrive with.
Hosts == {<<"localhost">>, <<"localhost", ":4873">>, <<"lan">>}

NoMetaResp == [status |-> 0, doc |-> NoDoc, upstream |-> Null]

\* The offline rewrite of one tarball URL in server.js: a URL that does not
\* contain the current host URL gets its first http:// authority replaced.
RewriteOfflineUrl_server_js(url, host) ==
  IF ~Includes(url, HostUrl(host))
  THEN ReplaceAuthority(url, {"http://"}, HostUrl(host))
  ELSE url

\* The offline rewrite of one tarball URL in part_004: the first http:// or
\* https:// authority is replaced.
RewriteOfflineUrl_part_004(url, host) ==
  ReplaceAuthority(url, {"http://", "https://"}, HostUrl(host))

RewriteOffline(b, doc, host) ==
  [v \in DOMAIN doc |->
     IF b = "server_js" THEN RewriteOfflineUrl_server_js(doc[v], host)
     ELSE RewriteOfflineUrl_part_004(doc[v], host)]

\* The catch block as the earlier version of the route has it (server.js
\* 415-418): 500 when nothing can be served.
OfflineStatus_earlier(stored) == IF stored = NoDoc THEN 500 ELSE 200

\* The status of the catch block: the persisted document when there is one,
\* 502 otherwise.
OfflineStatus(stored) == IF stored = NoDoc THEN 502 ELSE 200

\* The catch block of the route: the offline fallback.
OfflineResponse(b, stored, host, upstream) ==
  [status |-> OfflineStatus(stored),
   doc |-> IF stored = NoDoc THEN NoDoc
           ELSE <<RewriteOffline(b, stored[1], host)>>,
   upstream |-> upstream]

\* A request arrives and the upstream metadata is requested.
MetaReceive(m, host) ==
  /\ Fault(FALSE)
  /\ UNCHANGED <<proxyVars, ragVars>>
  /\ mpc[m] = "idle"
  /\ \A q \in MetaReqs : q < m => mpc[q] # "idle"
  /\ mpc' = [mpc EXCEPT ![m] = "m_fetch"]
  /\ mhost' = [mhost EXCEPT ![m] = host]
  /\ UNCHANGED <<mdoc, mresp, metaStore>>

\* The upstream request fails and the catch block answers, or it returns doc
\* and the tarball URLs are rewritten.
MetaUpstream(m, ok, doc) ==
  /\ Fault(~ok)
  /\ UNCHANGED <<proxyVars, ragVars>>
  /\ mpc[m] = "m_fetch"
  /\ IF ok
     THEN /\ mdoc' = [mdoc EXCEPT ![m] =
                     <<RewriteOnline(doc, HostUrl(mhost[m]))>>]
          /\ mpc' = [mpc EXCEPT ![m] = "m_write"]
          /\ UNCHANGED mresp
     ELSE /\ mpc' = [mpc EXCEPT ![m] = "done"]
          /\ mresp' = [mresp EXCEPT ![m] =
               OfflineResponse(build, metaStore[PkgName], mhost[m], "failed")]
          /\ UNCHANGED mdoc
  /\ UNCHANGED <<mhost, metaStore>>

\* fs.writeJson of the rewritten document and the answer; a failed write
\* lands in the catch block.
MetaWrite(m, ok) ==
  /\ Fault(~ok)
  /\ UNCHANGED <<proxyVars, ragVars>>
  /\ mpc[m] = "m_write"
  /\ mpc' = [mpc EXCEPT ![m] = "done"]
  /\ mdoc' = [mdoc EXCEPT ![m] = NoDoc]
  /\ IF ok
     THEN /\ metaStore' = [metaStore EXCEPT ![PkgName] = mdoc[m]]
          /\ mresp' = [mresp EXCEPT ![m] =
               [status |-> 200, doc |-> mdoc[m], upstream |-> "ok"]]
     ELSE /\ mresp' = [mresp EXCEPT ![m] =
               OfflineResponse(build, metaStore[PkgName], mhost[m], "ok")]
          /\ UNCHANGED metaStore
  /\ UNCHANGED mhost

Metadata(m) ==
  \/ \E host \in Hosts : MetaReceive(m, host)
  \/ \E ok \in BOOLEAN, doc \in UpstreamDocs : MetaUpstream(m, ok, doc)
  \/ \E ok \in BOOLEAN : MetaWrite(m, ok)

\* ------------------------------------------------------- documentation store
\* A text is a sequence of 100-character blocks, each named by the word it
\* holds; a question is a sequence of words.

Words == {"install", "setup", "express", "the"}

\* w.length
WordLen(w) == CASE w = "the" -> 3 [] w = "setup" -> 5 [] OTHER -> 7

\* chunkDocument's defaults, in blocks: chunkSize = 800, overlap = 100.
ChunkSize == 8
Overlap == 1

Min(a, b) == IF a <= b THEN a ELSE b

\* chunkDocument: text.substring(i, i + chunkSize) for i = 0, step, 2*step,
\* ... while i < text.length, with step = chunkSize - overlap.
RECURSIVE ChunksFrom(_, _, _, _)
ChunksFrom(text, i, chunkSize, overlap) ==
  IF i >= Len(text) THEN <<>>
  ELSE <<SubSeq(text, i + 1, Min(i + chunkSize, Len(text)))>>
         \o ChunksFrom(text, i + chunkSize - overlap, chunkSize, overlap)

\* chunkDocument as it would be if it stopped once a window has reached the
\* end of the text.
RECURSIVE ChunksUntilCovered(_, _, _, _)
ChunksUntilCovered(text, i, chunkSize, overlap) ==
  IF i >= Len(text) THEN <<>>
  ELSE <<SubSeq(text, i + 1, Min(i + chunkSize, Len(text)))>>
         \o (IF i + chunkSize >= Len(text) THEN <<>>
             ELSE ChunksUntilCovered(text, i + chunkSize - overlap,
                                     chunkSize, overlap))

chunkDocument_untilCovered(text, chunkSize, overlap) ==
  ChunksUntilCovered(text, 0, chunkSize, overlap)

\* chunkDocument as it would be if the windows advanced by chunkSize.
chunkDocument_disjoint(text, chunkSize, overlap) ==
  ChunksFrom(text, 0, chunkSize, 0)

chunkDocument(text, chunkSize, overlap) == ChunksFrom(text, 0, chunkSize, overlap)

\* The arguments of a call of chunkDocument: texts of code units up to
\* MaxTextLen, and chunkSize > overlap >= 0 (with overlap >= chunkSize the
\* loop variable does not advance and the loop does not end).
CodeUnits == {"a", "b"}
ChunkerTexts == UNION {[1..n -> CodeUnits] : n \in 0..MaxTextLen}
ChunkSizes == 1..MaxChunkSize

ChunkerStart(text, chunkSize, overlap) ==
  /\ kpc = "idle"
  /\ ktext = text
  /\ ksize = chunkSize
  /\ koverlap = overlap
  /\ kchunks = <<>>

\* chunkDocument(text, chunkSize, overlap) runs and returns its array.
ChunkCall ==
  /\ kpc = "idle"
  /\ kpc' = "done"
  /\ kchunks' = chunkDocument(ktext, ksize, koverlap)
  /\ UNCHANGED <<ktext, ksize, koverlap>>
  /\ UNCHANGED <<proxyVars, metaVars, metaStore, faults, ingestVars,
                 searchVars, chatVars, embeddingCache>>

\* The documentation texts scraped: one of two chunks, one of one chunk.
Texts == {<<"install", "the", "the", "the", "the", "the", "the", "express">>,
          <<"setup">>}

PackageNames == {"pkg", "lib"}

\* Embedding vectors: one direction per subject of a text, the empty vector
\* of an empty prompt, and the null of an unavailable backend.
NoEmbedding == "null"
EmptyVec == "[]"
Embeddings == {"install", "mixed", "setup", "express", "other"}

\* generateEmbedding when the backend answers.
EmbeddingOf(text) ==
  IF text = <<>> THEN EmptyVec
  ELSE IF {"install", "express"} \subseteq Range(text) THEN "mixed"
  ELSE IF "install" \in Range(text) THEN "install"
  ELSE IF "setup" \in Range(text) THEN "setup"
  ELSE IF "express" \in Range(text) THEN "express"
  ELSE "other"

\* cosineSimilarity, in sevenths: 0 for a missing vector or vectors of
\* different lengths, 7 for equal directions, less for others.
cosineSimilarity(a, b) ==
  IF a \notin Embeddings \/ b \notin Embeddings THEN 0
  ELSE IF a = b THEN 7
  ELSE IF {a, b} = {"install", "setup"} THEN 5
  ELSE IF {a, b} \in {{"install", "mixed"}, {"install", "express"},
                      {"mixed", "express"}} THEN 3
  ELSE 1

Ingests == 1..MaxIngests

\* storeDocumentWithEmbeddings is called (by /force-scrape/:name or by the
\* scrape that follows a tarball download) and issues Chunk.deleteMany.
IngestStart(g, name, text) ==
  /\ Fault(FALSE)
  /\ ipc[g] = "idle"
  /\ \A q \in Ingests : q < g => ipc[q] # "idle"
  /\ ipc' = [ipc EXCEPT ![g] = "delete"]
  /\ iname' = [iname EXCEPT ![g] = name]
  /\ ichunks' = [ichunks EXCEPT ![g] = chunkDocument(text, ChunkSize, Overlap)]
  /\ UNCHANGED <<chunks, nextId, ii>>
  /\ UNCHANGED <<proxyVars, metaVars, metaStore, chunkerVars,
               searchVars, chatVars, embeddingCache>>

\* Chunk.deleteMany({ packageName }) completes, or rejects into the catch
\* block.
IngestDelete(g, ok) ==
  /\ Fault(~ok)
  /\ ipc[g] = "delete"
  /\ IF ok
     THEN /\ chunks' = SelectSeq(chunks, LAMBDA c : c.packageName # iname[g])
          /\ ipc' = [ipc EXCEPT ![g] =
                       IF ichunks[g] = <<>> THEN "done" ELSE "create"]
     ELSE /\ ipc' = [ipc EXCEPT ![g] = "done"]
          /\ UNCHANGED chunks
  /\ UNCHANGED <<nextId, iname, ichunks, ii>>
  /\ UNCHANGED <<proxyVars, metaVars, metaStore, chunkerVars,
               searchVars, chatVars, embeddingCache>>

\* One turn of the loop: generateEmbedding(chunks[i]) (null when the backend
\* is unavailable), then Chunk.create, which may reject into the catch block.
IngestCreate(g, embedded, ok) ==
  /\ Fault(~ok)
  /\ ipc[g] = "create"
  /\ LET i == ii[g]
         text == ichunks[g][i + 1]
         rec == [id |-> nextId, packageName |-> iname[g], chunkIndex |-> i,
                 text |-> text,
                 embedding |-> IF embedded THEN EmbeddingOf(text)
                               ELSE NoEmbedding]
     IN IF ok
        THEN /\ chunks' = Append(chunks, rec)
             /\ nextId' = nextId + 1
             /\ ii' = [ii EXCEPT ![g] = i + 1]
             /\ ipc' = [ipc EXCEPT ![g] =
                          IF i + 1 < Len(ichunks[g]) THEN "create" ELSE "done"]
        ELSE /\ ipc' = [ipc EXCEPT ![g] = "done"]
             /\ UNCHANGED <<chunks, nextId, ii>>
  /\ UNCHANGED <<iname, ichunks>>
  /\ UNCHANGED <<proxyVars, metaVars, metaStore, chunkerVars,
               searchVars, chatVars, embeddingCache>>

\* What a call of storeDocumentWithEmbeddings that nothing interleaves with
\* leaves in the collection: the chunks of other packages, then the chunks
\* of the document with chunkIndex 0, 1, ...
Docs == [name : PackageNames, text : Texts, embedded : BOOLEAN]

StoredChunks(d, firstId) ==
  LET cs == chunkDocument(d.text, ChunkSize, Overlap)
  IN [i \in 1..Len(cs) |->
        [id |-> firstId + i - 1, packageName |-> d.name, chunkIndex |-> i - 1,
         text |-> cs[i],
         embedding |-> IF d.embedded THEN EmbeddingOf(cs[i]) ELSE NoEmbedding]]

storeDocumentWithEmbeddings(store, d, firstId) ==
  SelectSeq(store, LAMBDA c : c.packageName # d.name) \o StoredChunks(d, firstId)

\* The collections that up to n such calls, one after the other, produce.
RECURSIVE StoresAfter(_)
StoresAfter(n) ==
  IF n = 0 THEN {<<>>}
  ELSE LET prev == StoresAfter(n - 1)
       IN prev \cup
          {storeDocumentWithEmbeddings(s, d,
             (IF s = <<>> THEN 0 ELSE s[Len(s)].id) + 1) : s \in prev, d \in Docs}

Stores == StoresAfter(MaxDocs)

\* --------------------------------------------------------------- retrieval

\* The questions asked: the empty one and one with a keyword.
Questions == {<<>>, <<"install">>}

\* question.split(/\s+/).filter(w => w.length > 3)
Keywords(question) == {w \in Range(question) : WordLen(w) > 3}

\* new RegExp(keywords.join('|'), 'i') tested on a text: the regex of an
\* empty keyword list is empty and matches every text.
RegexMatches(text, question) ==
  \/ Keywords(question) = {}
  \/ Keywords(question) \cap Range(text) # {}

\* A cache entry that is absent.
NoEntry == [present |-> FALSE, value |-> Null, expiresAt |-> 0]

\* TTL of the embedding cache (expires: 3600) and of the response cache
\* (86400000 ms), in hours.
EmbeddingTtl == 1
ResponseTtl == 24

\* getOrCacheEmbedding, its result: the cached embedding when
\* EmbeddingCache.findOne finds an entry, else what generateEmbedding gives.
EmbeddingFor(ec, text, backendUp) ==
  IF ec[text].present THEN ec[text].value
  ELSE IF backendUp THEN EmbeddingOf(text) ELSE NoEmbedding

\* getOrCacheEmbedding, its effect: a generated embedding is upserted.
EmbeddingCacheAfter(ec, text, backendUp, t) ==
  IF ~ec[text].present /\ backendUp
  THEN [ec EXCEPT ![text] = [present |-> TRUE, value |-> EmbeddingOf(text),
                             expiresAt |-> t + EmbeddingTtl]]
  ELSE ec

\* Array.prototype.sort with (a, b) => b.key - a.key: stable, descending.
RECURSIVE InsertDesc(_, _, _)
InsertDesc(sorted, x, key) ==
  IF sorted = <<>> THEN <<x>>
  ELSE IF x[key] > sorted[1][key] THEN <<x>> \o sorted
  ELSE <<sorted[1]>> \o InsertDesc(Tail(sorted), x, key)

\* The sort as it would be if it left the array as it is.
SortDesc_unsorted(s, key) == s

RECURSIVE SortDesc(_, _)
SortDesc(s, key) ==
  IF s = <<>> THEN <<>>
  ELSE InsertDesc(SortDesc(SubSeq(s, 1, Len(s) - 1), key), s[Len(s)], key)

\* slice(0, n) and limit(n)
Take(s, n) == SubSeq(s, 1, Min(n, Len(s)))

Scored(c, score) ==
  [id |-> c.id, packageName |-> c.packageName, chunkIndex |-> c.chunkIndex,
   text |-> c.text, score |-> score]

\* Chunk.find({ text: regex }) in store order.
TextSearch(store, question) ==
  SelectSeq(store, LAMBDA c : RegexMatches(c.text, question))

\* findRelevantChunks: with a query embedding, the chunks that have an
\* embedding, scored, sorted, cut to topK and filtered by score > 0.3
\* (3 sevenths and more); without one, the text search cut to topK.
findRelevantChunks(store, qe, question, topK) ==
  IF qe # NoEmbedding
  THEN LET all == SelectSeq(store, LAMBDA c : c.embedding # NoEmbedding)
           scored == [i \in 1..Len(all) |->
                        Scored(all[i], cosineSimilarity(qe, all[i].embedding))]
       IN SelectSeq(Take(SortDesc(scored, "score"), topK),
                    LAMBDA c : 10 * c.score > 21)
  ELSE LET found == Take(TextSearch(store, question), topK)
       IN [i \in 1..Len(found) |-> Scored(found[i], 0)]

Ids(s) == {s[i].id : i \in 1..Len(s)}

\* The merge as it would be if a vector result found again by the keyword
\* query were not marked.
Merged_unmarked(vectorResults, keywordResults) ==
  LET first == [i \in 1..Len(vectorResults) |->
                  LET r == vectorResults[i]
                  IN [id |-> r.id, packageName |-> r.packageName,
                      chunkIndex |-> r.chunkIndex, vectorScore |-> r.score,
                      keywordScore |-> 0, combinedScore |-> r.score]]
      rest == SelectSeq(keywordResults,
                        LAMBDA c : c.id \notin Ids(vectorResults))
      second == [i \in 1..Len(rest) |->
                   [id |-> rest[i].id, packageName |-> rest[i].packageName,
                    chunkIndex |-> rest[i].chunkIndex, vectorScore |-> 0,
                    keywordScore |-> 1, combinedScore |-> 3]]
  IN first \o second

\* The merge of hybridSearch: the vector results in their order, then the
\* keyword results not among them; combinedScore in tenths,
\* 10 * (0.7 * vectorScore + 0.3 * keywordScore).
Merged(vectorResults, keywordResults) ==
  LET both == Ids(keywordResults)
      first == [i \in 1..Len(vectorResults) |->
                  LET r == vectorResults[i]
                      k == IF r.id \in both THEN 1 ELSE 0
                  IN [id |-> r.id, packageName |-> r.packageName,
                      chunkIndex |-> r.chunkIndex, vectorScore |-> r.score,
                      keywordScore |-> k, combinedScore |-> r.score + 3 * k]]
      rest == SelectSeq(keywordResults,
                        LAMBDA c : c.id \notin Ids(vectorResults))
      second == [i \in 1..Len(rest) |->
                   [id |-> rest[i].id, packageName |-> rest[i].packageName,
                    chunkIndex |-> rest[i].chunkIndex, vectorScore |-> 0,
                    keywordScore |-> 1, combinedScore |-> 3]]
  IN first \o second

Searches == 1..MaxSearches

\* hybridSearch(question, topK) up to its second await: findRelevantChunks
\* with topK * 2.
SearchVector(h, question, topK, backendUp) ==
  /\ Fault(FALSE)
  /\ hpc[h] = "idle"
  /\ \A q \in Searches : q < h => hpc[q] # "idle"
  /\ LET qe == EmbeddingFor(embeddingCache, question, backendUp)
     IN /\ hqe' = [hqe EXCEPT ![h] = qe]
        /\ hvec' = [hvec EXCEPT ![h] =
                      findRelevantChunks(chunks, qe, question, topK * 2)]
        /\ embeddingCache' =
             EmbeddingCacheAfter(embeddingCache, question, backendUp, now)
  /\ hpc' = [hpc EXCEPT ![h] = "keyword"]
  /\ hq' = [hq EXCEPT ![h] = question]
  /\ hk' = [hk EXCEPT ![h] = topK]
  /\ UNCHANGED hres
  /\ UNCHANGED <<proxyVars, metaVars, metaStore, chunkerVars,
               ingestVars, chatVars>>

\* The keyword query, the merge, the sort and the cut to topK; a rejected
\* query ends in the catch block, which returns [].
SearchMerge(h, ok) ==
  /\ Fault(~ok)
  /\ hpc[h] = "keyword"
  /\ hpc' = [hpc EXCEPT ![h] = IF ok THEN "done" ELSE "failed"]
  /\ LET keywordResults == Take(TextSearch(chunks, hq[h]), hk[h] * 2)
     IN hres' = [hres EXCEPT ![h] =
          IF ok
          THEN Take(SortDesc(Merged(hvec[h], keywordResults), "combinedScore"),
                    hk[h])
          ELSE <<>>]
  /\ UNCHANGED <<hq, hk, hvec, hqe, embeddingCache>>
  /\ UNCHANGED <<proxyVars, metaVars, metaStore, chunkerVars,
               ingestVars, chatVars>>

\* ---------------------------------------------------------- POST /api/chat

Chats == 1..MaxChatReqs

\* What the LLM may answer (response.data.response, which may be the empty
\* string), and what askOllama returns when the request to it fails.
Answers == {"a1", "a2", ""}
LlmErrorAnswer == "Error: Is Ollama running? (Run \"ollama serve\")"
NoDocsAnswer == "No relevant documentation found. Try scraping a package first."
ChatErrorAnswer == "Error processing your question."

\* findRelevantChunks(question, 3)
ChatTopK == 3

NoChatResp == [status |-> 0, answer |-> Null, source |-> Null]
NoCalls == [retrieval |-> 0, llm |-> 0]

\* getCachedResponse as it would be if it returned the stored document
\* instead of its answer field.
getCachedResponse_document(rc, question) ==
  IF rc[question].present THEN "[object Object]" ELSE Null

\* getCachedResponse: cached ? cached.answer : null
getCachedResponse(rc, question) ==
  IF rc[question].present THEN rc[question].value ELSE Null

\* cacheResponse: the upsert of { answer, expiresAt: now + 24 h }.
cacheResponse(rc, question, answer, t) ==
  [rc EXCEPT ![question] = [present |-> TRUE, value |-> answer,
                            expiresAt |-> t + ResponseTtl]]

\* The handler up to findRelevantChunks: a cached answer is returned with
\* source 'cache' when it is truthy (`if (cached)`: neither null nor the
\* empty string); a rejected Cache.findOne ends in the catch block.
ChatReceive(c, question, ok) ==
  /\ Fault(~ok)
  /\ cpc[c] = "idle"
  /\ \A q \in Chats : q < c => cpc[q] # "idle"
  /\ cq' = [cq EXCEPT ![c] = question]
  /\ LET cached == getCachedResponse(cache, question)
     IN IF ~ok
        THEN /\ cpc' = [cpc EXCEPT ![c] = "done"]
             /\ cresp' = [cresp EXCEPT ![c] =
                  [status |-> 500, answer |-> ChatErrorAnswer, source |-> Null]]
        ELSE IF cached \notin {Null, ""}
        THEN /\ cpc' = [cpc EXCEPT ![c] = "done"]
             /\ cresp' = [cresp EXCEPT ![c] =
                  [status |-> 200, answer |-> cached, source |-> "cache"]]
        ELSE /\ cpc' = [cpc EXCEPT ![c] = "retrieve"]
             /\ UNCHANGED cresp
  /\ UNCHANGED <<now, cache, cchunks, ccalls, embeddingCache>>
  /\ UNCHANGED <<proxyVars, metaVars, metaStore, chunkerVars,
               ingestVars, searchVars>>

\* findRelevantChunks(question, 3) and the answer for an empty result.
ChatRetrieve(c, backendUp) ==
  /\ Fault(FALSE)
  /\ cpc[c] = "retrieve"
  /\ LET qe == EmbeddingFor(embeddingCache, cq[c], backendUp)
         found == findRelevantChunks(chunks, qe, cq[c], ChatTopK)
     IN /\ embeddingCache' =
             EmbeddingCacheAfter(embeddingCache, cq[c], backendUp, now)
        /\ cchunks' = [cchunks EXCEPT ![c] = found]
        /\ IF found = <<>>
           THEN /\ cpc' = [cpc EXCEPT ![c] = "done"]
                /\ cresp' = [cresp EXCEPT ![c] =
                     [status |-> 200, answer |-> NoDocsAnswer, source |-> Null]]
           ELSE /\ cpc' = [cpc EXCEPT ![c] = "generate"]
                /\ UNCHANGED cresp
  /\ ccalls' = [ccalls EXCEPT ![c].retrieval = @ + 1]
  /\ UNCHANGED <<now, cache, cq>>
  /\ UNCHANGED <<proxyVars, metaVars, metaStore, chunkerVars,
               ingestVars, searchVars>>

\* The last part of the handler as it would be if the canned string of a
\* failed LLM request were sent but not cached.
ChatGenerate_skipErrors(c, llmUp, text, ok) ==
  /\ Fault(~ok)
  /\ cpc[c] = "generate"
  /\ cpc' = [cpc EXCEPT ![c] = "done"]
  /\ ccalls' = [ccalls EXCEPT ![c].llm = @ + 1]
  /\ LET answer == IF llmUp THEN text ELSE LlmErrorAnswer
     IN IF ok
        THEN /\ cache' = IF llmUp THEN cacheResponse(cache, cq[c], answer, now)
                         ELSE cache
             /\ cresp' = [cresp EXCEPT ![c] =
                  [status |-> 200, answer |-> answer,
                   source |-> cchunks[c][1].packageName]]
        ELSE /\ cresp' = [cresp EXCEPT ![c] =
                  [status |-> 500, answer |-> ChatErrorAnswer, source |-> Null]]
             /\ UNCHANGED cache
  /\ UNCHANGED <<now, cq, cchunks, embeddingCache>>
  /\ UNCHANGED <<proxyVars, metaVars, metaStore, chunkerVars,
               ingestVars, searchVars>>

\* askOllama (the answer, or its canned string when the request to the LLM
\* fails), cacheResponse and the response; a rejected cache write ends in
\* the catch block.
ChatGenerate(c, llmUp, text, ok) ==
  /\ Fault(~ok)
  /\ cpc[c] = "generate"
  /\ cpc' = [cpc EXCEPT ![c] = "done"]
  /\ ccalls' = [ccalls EXCEPT ![c].llm = @ + 1]
  /\ LET answer == IF llmUp THEN text ELSE LlmErrorAnswer
     IN IF ok
        THEN /\ cache' = cacheResponse(cache, cq[c], answer, now)
             /\ cresp' = [cresp EXCEPT ![c] =
                  [status |-> 200, answer |-> answer,
                   source |-> cchunks[c][1].packageName]]
        ELSE /\ cresp' = [cresp EXCEPT ![c] =
                  [status |-> 500, answer |-> ChatErrorAnswer, source |-> Null]]
             /\ UNCHANGED cache
  /\ UNCHANGED <<now, cq, cchunks, embeddingCache>>
  /\ UNCHANGED <<proxyVars, metaVars, metaStore, chunkerVars,
               ingestVars, searchVars>>

\* The instants, in hours, at which something happens: the start, and the
\* ends of an embedding TTL and of a response TTL counted from either.
Instants == {0, EmbeddingTtl, ResponseTtl, ResponseTtl + EmbeddingTtl}

\* Time passes.
Tick(t) ==
  /\ Fault(FALSE)
  /\ t > now
  /\ now' = t
  /\ UNCHANGED <<cache, cpc, cq, cchunks, cresp, ccalls, embeddingCache>>
  /\ UNCHANGED <<proxyVars, metaVars, metaStore, chunkerVars,
               ingestVars, searchVars>>

Expired(entry) == entry.present /\ entry.expiresAt <= now

\* The TTL monitor of the database runs: the entries whose expiry has
\* passed are removed from both caches.
Reclaim ==
  /\ Fault(FALSE)
  /\ \E q \in Questions : Expired(cache[q]) \/ Expired(embeddingCache[q])
  /\ cache' = [q \in Questions |->
                 IF Expired(cache[q]) THEN NoEntry ELSE cache[q]]
  /\ embeddingCache' = [q \in Questions |->
                 IF Expired(embeddingCache[q]) THEN NoEntry
                 ELSE embeddingCache[q]]
  /\ UNCHANGED <<now, cpc, cq, cchunks, cresp, ccalls>>
  /\ UNCHANGED <<proxyVars, metaVars, metaStore, chunkerVars,
               ingestVars, searchVars>>

\* ------------------------------------------------------------ specification

TheFile == CHOOSE f \in Files : TRUE

\* The proxy as it starts on the cache directory d.
ProxyStart(d) ==
  /\ build \in Builds
  /\ disk = d
  /\ downloadLocks = [f \in Files |-> NoLock]
  /\ promise = [c \in Ctx |-> "none"]
  /\ waitq = [c \in Ctx |-> <<>>]
  /\ pc = [c \in Ctx |-> "idle"]
  /\ fname = [c \in Ctx |-> TheFile]
  /\ wr = [c \in Ctx |-> NoWriter]
  /\ resp = [c \in Ctx |-> NoResp]
  /\ ver = [c \in Ctx |-> NoVer]
  /\ securityLog = [c \in Ctx |-> <<>>]
  /\ packages = [c \in Ctx |-> <<>>]
  /\ documentation = {}
  /\ unhandled = FALSE
  /\ targetVersion = [p \in Pre |-> Null]
  /\ metaStore = [n \in Names |-> NoDoc]
  /\ faults = 0
  /\ mpc = [m \in MetaReqs |-> "idle"]
  /\ mhost = [m \in MetaReqs |-> <<>>]
  /\ mdoc = [m \in MetaReqs |-> NoDoc]
  /\ mresp = [m \in MetaReqs |-> NoMetaResp]

\* The documentation store as found, the caches empty, no call under way.
RagStart(store) ==
  /\ now = 0
  /\ cache = [q \in Questions |-> NoEntry]
  /\ embeddingCache = [q \in Questions |-> NoEntry]
  /\ chunks = store
  /\ nextId = (IF store = <<>> THEN 0 ELSE store[Len(store)].id) + 1
  /\ ipc = [g \in Ingests |-> "idle"]
  /\ iname = [g \in Ingests |-> Null]
  /\ ichunks = [g \in Ingests |-> <<>>]
  /\ ii = [g \in Ingests |-> 0]
  /\ hpc = [h \in Searches |-> "idle"]
  /\ hq = [h \in Searches |-> <<>>]
  /\ hk = [h \in Searches |-> 0]
  /\ hqe = [h \in Searches |-> NoEmbedding]
  /\ hvec = [h \in Searches |-> <<>>]
  /\ hres = [h \in Searches |-> <<>>]
  /\ cpc = [c \in Chats |-> "idle"]
  /\ cq = [c \in Chats |-> <<>>]
  /\ cchunks = [c \in Chats |-> <<>>]
  /\ cresp = [c \in Chats |-> NoChatResp]
  /\ ccalls = [c \in Chats |-> NoCalls]

RagInit(store) ==
  RagStart(store) /\ ChunkerStart(<<>>, ChunkSize, Overlap)

\* The cache directory is empty.
ProxyInit == ProxyStart([f \in Files |-> NoFile])

Init == ProxyInit /\ RagInit(<<>>)

Verify(c) ==
  \/ \E ok \in BOOLEAN, algorithm \in Algorithms : VHash(c, ok, algorithm)
  \/ \E ok \in BOOLEAN : VRemove(c, ok)
  \/ \E ok \in BOOLEAN : VLogSuccess(c, ok)
  \/ \E ok \in BOOLEAN : VLogThreat(c, ok)
  \/ \E ok \in BOOLEAN : VCatch(c, ok)

Tarball(r) ==
  \/ \E f \in Files : Receive(r, f)
  \/ ServeEnd(r)
  \/ UpstreamFails(r)
  \/ \E body \in Contents : UpstreamResponds(r, body)
  \/ TeeChunk(r)
  \/ Finish(r)
  \/ WriterError(r)
  \/ ResEnd(r)
  \/ BodyError(r)
  \/ ClientDisconnect(r)
  \/ \E ok, scraped \in BOOLEAN : PkgCreate(r, ok, scraped)

Precache(p) ==
  \/ \E hasName, ok \in BOOLEAN, doc \in UpstreamDocs,
        version \in RequestVersions :
       PrecacheReceive(p, hasName, ok, doc, version)
  \/ PrecacheFetchFails(p)
  \/ \E body \in Contents : PrecacheResponds(p, body)
  \/ PrecacheChunk(p)
  \/ PrecacheFinish(p)
  \/ PrecacheWriterError(p)
  \/ PrecacheBodyError(p)
  \/ \E ok \in BOOLEAN, doc \in UpstreamDocs : PrecacheJson(p, ok, doc)
  \/ \E ok \in BOOLEAN : PrecachePkg(p, ok)
  \/ PrecacheRespond(p)

\* Tarball requests only.
Next ==
  \/ \E r \in Tar : Tarball(r)
  \/ \E r \in Tar : Verify(r)

Spec == Init /\ [][Next]_vars

\* Tarball requests only, the cache directory empty or holding the file
\* that an earlier run of the server cached.
CachedFile == [exists |-> TRUE, data |-> GoodContent]

WarmInit ==
  /\ \E d \in [Files -> {NoFile, CachedFile}] : ProxyStart(d)
  /\ RagInit(<<>>)

WarmSpec == WarmInit /\ [][Next]_vars

\* The server process is stopped and started again: the handlers under way
\* and everything in memory (the map, the promises, the write streams) are
\* gone, the cache directory and the database stay as they are, and startup
\* does fs.ensureDirSync(CACHE_DIR) and nothing else with the directory.
Restart ==
  /\ Fault(TRUE)
  /\ UNCHANGED <<metaVars, targetVersion, ragVars>>
  /\ pc' = [c \in Ctx |->
             IF pc[c] \in {"idle", "done"} THEN pc[c] ELSE "killed"]
  /\ downloadLocks' = [f \in Files |-> NoLock]
  /\ promise' = [c \in Ctx |-> "none"]
  /\ waitq' = [c \in Ctx |-> <<>>]
  /\ wr' = [c \in Ctx |-> [wr[c] EXCEPT !.open = FALSE, !.live = FALSE]]
  /\ unhandled' = FALSE
  /\ UNCHANGED <<build, disk, fname, resp, ver, securityLog, packages,
                 documentation, metaStore>>

RestartNext ==
  \/ Next
  \/ Restart

RestartSpec == Init /\ [][RestartNext]_vars

\* Tarball requests and precache requests, on the build that has both.
Mixed == 1..MaxMixedReqs

CacheInit == Init /\ build = "part_004"

CacheNext ==
  \/ \E r \in Mixed : Tarball(r)
  \/ \E p \in Pre : Precache(p)
  \/ \E c \in Mixed \cup Pre : Verify(c)

CacheSpec == CacheInit /\ [][CacheNext]_vars

\* Metadata requests only; what the precache route persists is what a
\* metadata request with Host localhost:4873 persists.
MetaNext == \E m \in MetaReqs : Metadata(m)

MetaSpec == Init /\ [][MetaNext]_vars

\* The event loop runs every handler whose next step is ready.
FairSpec == Spec /\ \A r \in Tar : WF_vars(Tarball(r) \/ Verify(r))

\* Calls of storeDocumentWithEmbeddings only, on an empty collection.
Ingest(g) ==
  \/ \E name \in PackageNames, text \in Texts : IngestStart(g, name, text)
  \/ \E ok \in BOOLEAN : IngestDelete(g, ok)
  \/ \E embedded, ok \in BOOLEAN : IngestCreate(g, embedded, ok)

IngestNext == \E g \in Ingests : Ingest(g)

IngestInit == Init /\ build = "server_js"

IngestSpec == IngestInit /\ [][IngestNext]_vars

\* Calls of hybridSearch only, on a collection that earlier ingests left.
TopKs == 1..MaxTopK

Search(h) ==
  \/ \E question \in Questions, topK \in TopKs, backendUp \in BOOLEAN :
       SearchVector(h, question, topK, backendUp)
  \/ \E ok \in BOOLEAN : SearchMerge(h, ok)

SearchInit == ProxyInit /\ build = "server_js" /\ \E s \in Stores : RagInit(s)

SearchNext == \E h \in Searches : Search(h)

SearchSpec == SearchInit /\ [][SearchNext]_vars

\* Chat requests only, with the clock and the TTL monitor of the database.
Chat(c) ==
  \/ \E question \in Questions, ok \in BOOLEAN : ChatReceive(c, question, ok)
  \/ \E backendUp \in BOOLEAN : ChatRetrieve(c, backendUp)
  \/ \E llmUp, ok \in BOOLEAN, text \in Answers : ChatGenerate(c, llmUp, text, ok)

ChatNext ==
  \/ \E c \in Chats : Chat(c)
  \/ \E t \in Instants : Tick(t)
  \/ Reclaim

\* The collection holds no document, or one.
\* A call of chunkDocument on every text and every pair of parameters.
ChunkerInit ==
  /\ ProxyInit /\ build = "server_js"
  /\ RagStart(<<>>)
  /\ \E text \in ChunkerTexts, chunkSize \in ChunkSizes :
       \E overlap \in 0..(chunkSize - 1) :
         ChunkerStart(text, chunkSize, overlap)

ChunkerSpec == ChunkerInit /\ [][ChunkCall]_vars

ChatInit ==
  ProxyInit /\ build = "server_js" /\ \E s \in StoresAfter(1) : RagInit(s)

ChatSpec == ChatInit /\ [][ChatNext]_vars


\* ------------------------------------------------------------------ claims

\* The upstream GET of handler r is in flight: requested, or its body is
\* still being piped.
FetchInProgress(r) ==
  pc[r] \in {"fetching", "teeing", "file_only", "res_only"}

\* C1: for every filename F, at most one upstream fetch for F is in
\* progress at any instant, also when an in-progress fetch fails while
\* other requests wait on it.
C1_AtMostOneFetch ==
  \A f \in Files :
    Cardinality({r \in Tar : FetchInProgress(r) /\ fname[r] = f}) <= 1

\* C2: whenever a handler opens the on-disk file to serve it, no writer of
\* that file is still open.
C2_NoServeWhileWriting == \A r \in Tar : ~resp[r].partial

\* C3: every tarball request that was received eventually has its response
\* ended (the file streamed or an error sent), also when the upstream body
\* errors after the headers.
C3_EveryRequestTerminates ==
  \A r \in Tar : (pc[r] # "idle") ~> resp[r].ended

\* verifyPackageIntegrity of c returns or throws in this step.
Returned(c) == pc[c] \in VerifySteps /\ pc'[c] \notin VerifySteps

\* The verification of c computed a digest that differs from the declared
\* integrity.
Mismatch(c) ==
  /\ ver[c].official # NoSum
  /\ ver[c].actual # NoSum
  /\ ver[c].official # ver[c].actual

\* The threat_detected events of c that carry both digests.
ThreatEvents(c) ==
  {i \in 1..Len(securityLog[c]) :
     /\ securityLog[c][i].eventType = "threat_detected"
     /\ securityLog[c][i].checksum = ver[c].actual
     /\ securityLog[c][i].expectedChecksum = ver[c].official}

\* C4: when verifyPackageIntegrity found a mismatch, then on return the file
\* is not on disk, exactly one threat_detected event with both digests was
\* appended and the result is {verified: false, threat: true}.
C4_ThreatResponse ==
  [][\A c \in Ctx :
       Returned(c) /\ Mismatch(c) =>
         /\ ~disk'[fname[c]].exists
         /\ Cardinality(ThreatEvents(c))' = 1
         /\ ver'[c].result = "threat"]_vars

\* C5: every invocation of verifyPackageIntegrity returns a result (never
\* throws) and has appended exactly one Security event.
C5_OneEventNeverThrows ==
  [][\A c \in Ctx :
       Returned(c) =>
         /\ ver'[c].result # "threw"
         /\ Len(securityLog'[c]) = 1]_vars

\* C6: for every verified Package record whose file is on disk, the digest
\* of the file's current contents equals the record's integrity.
C6_VerifiedRecordMatchesFile ==
  \A c \in Ctx : \A i \in 1..Len(packages[c]) :
    LET rec == packages[c][i]
    IN rec.verified /\ disk[rec.cachedPath].exists =>
         calculateChecksum(disk[rec.cachedPath].data, "sha512") = rec.integrity

RECURSIVE SumLen(_, _)
SumLen(F, S) ==
  IF S = {} THEN 0
  ELSE LET x == CHOOSE y \in S : TRUE IN Len(F[x]) + SumLen(F, S \ {x})

\* All tarball requests were answered 200 from one upstream fetch, and
\* nothing in the environment failed.
ServedByOneFetch ==
  /\ faults = 0
  /\ \A r \in Tar : pc[r] = "done" /\ resp[r].status = 200 /\ resp[r].ended
  /\ Cardinality({r \in Tar : wr[r].src # <<>>}) = 1

\* C7: when N concurrent requests for one uncached tarball are served by one
\* successful upstream fetch, exactly one verification ran, exactly one
\* Security event and exactly one Package record were created.
C7_OneVerificationOneRecord ==
  ServedByOneFetch =>
    /\ Cardinality({r \in Tar : ver[r].official # NoSum}) = 1
    /\ SumLen(securityLog, Tar) = 1
    /\ SumLen(packages, Tar) = 1

\* The scheme and authority of url are http://<host>.
AuthorityIs(url, host) ==
  /\ Len(url) > Len(host) + 1
  /\ SubSeq(url, 1, Len(host) + 1) = HostUrl(host)
  /\ ~SlashFree(url[Len(host) + 2])

\* Handler m leaves its upstream request through the catch block.
UpstreamFailed(m) == mpc[m] = "m_fetch" /\ mpc'[m] = "done"

\* C8: when the upstream fetch fails and a persisted document exists, the
\* answer is 200 with every tarball URL at http://<Host of this request>.
C8_OfflineRewritesToCurrentHost ==
  [][\A m \in MetaReqs :
       UpstreamFailed(m) /\ metaStore[PkgName] # NoDoc =>
         /\ mresp'[m].status = 200
         /\ \A v \in DocVersions :
              AuthorityIs(mresp'[m].doc[1][v], mhost[m])]_vars

\* C9: when the upstream fetch fails and no persisted document exists, the
\* answer is 502 and nothing is written to the cache directory.
C9_NoCache502 ==
  [][\A m \in MetaReqs :
       UpstreamFailed(m) /\ metaStore[PkgName] = NoDoc =>
         /\ mresp'[m].status = 502
         /\ metaStore' = metaStore
         /\ disk' = disk]_vars

\* A request answered 502 after its upstream fetch failed with nothing
\* persisted.
C9_Witness ==
  \E m \in MetaReqs :
    /\ mresp[m].status = 502
    /\ mresp[m].upstream = "failed"
    /\ metaStore[PkgName] = NoDoc

\* Handler m persisted its rewritten document and answered with it.
Persisted(m) == mpc[m] = "m_write" /\ mpc'[m] = "done" /\ faults' = faults

\* C10: on a successful upstream fetch the document returned and persisted
\* has every tarball URL at http://<request Host>, whatever URL upstream
\* declared.
C10_OnlineRewritesEveryUrl ==
  [][\A m \in MetaReqs :
       Persisted(m) =>
         \A v \in DocVersions :
           /\ AuthorityIs(mresp'[m].doc[1][v], mhost[m])
           /\ AuthorityIs(metaStore'[PkgName][1][v], mhost[m])]_vars

\* Handler m answers from the persisted document in this step.
AnsweredOffline(m) ==
  /\ mpc[m] # "done"
  /\ mpc'[m] = "done"
  /\ faults' # faults
  /\ mresp'[m].doc # NoDoc

\* Handler m rewrote the upstream document in this step.
RewroteOnline(m) == mpc[m] = "m_fetch" /\ mpc'[m] = "m_write"

C12_MismatchFailsClient ==
  \A r \in Tar :
    Mismatch(r) => ~(resp[r].status = 200 /\ resp[r].ended)

\* Handler p has fetched the metadata and computed its target version in
\* this step, and the metadata holds no such version.
UnknownVersion(p) ==
  /\ pc[p] = "idle"
  /\ targetVersion'[p] # Null
  /\ targetVersion'[p] \notin DocVersions

\* C20: a precache request whose target version is not in the upstream
\* metadata is answered 404, and creates no file, no Package record and no
\* Security event.
C20_UnknownVersion404 ==
  [][\A p \in Pre :
       UnknownVersion(p) =>
         /\ resp'[p].status = 404
         /\ disk' = disk
         /\ packages' = packages
         /\ securityLog' = securityLog]_vars

\* Handler c answers from the response cache in this step.
AnsweredFromCache(c) ==
  /\ cpc[c] = "idle"
  /\ cresp'[c].source = "cache"

\* Handler c takes its query embedding from the embedding cache in this step.
EmbeddingFromCache(c) ==
  /\ cpc[c] = "retrieve"
  /\ cpc'[c] # "retrieve"
  /\ embeddingCache[cq[c]].present

\* C13: a response or an embedding is taken from its cache only while the
\* current time is before the expiry of the entry, 24 hours after the
\* response was stored and 1 hour after the embedding was.
C13_ReturnedBeforeExpiry ==
  [][\A c \in Chats :
       /\ AnsweredFromCache(c) => now < cache[cq'[c]].expiresAt
       /\ EmbeddingFromCache(c) => now < embeddingCache[cq[c]].expiresAt]_vars

\* The chunkIndex values stored for a package, in store order.
IndicesOf(name) ==
  LET mine == SelectSeq(chunks, LAMBDA c : c.packageName = name)
  IN [i \in 1..Len(mine) |-> mine[i].chunkIndex]

\* No call of storeDocumentWithEmbeddings is under way.
IngestsSettled == \A g \in Ingests : ipc[g] \in {"idle", "done"}

\* C14: once the ingests have returned, the chunks stored for a package
\* have pairwise different chunkIndex values, and these are 0..n-1.
C14_UniqueContiguousIndices ==
  IngestsSettled =>
    \A name \in PackageNames :
      LET idx == IndicesOf(name)
      IN /\ \A i, j \in 1..Len(idx) : i # j => idx[i] # idx[j]
         /\ Range(idx) = 0..(Len(idx) - 1)

\* Handler c was answered from the response cache.
CacheHit(c) == cpc[c] = "done" /\ cresp[c].source = "cache"

\* Handler d completed the question with a generated answer, which it
\* stored in the response cache.
Completed(d) ==
  /\ cpc[d] = "done"
  /\ cresp[d].status = 200
  /\ ccalls[d].llm = 1

\* C15: a chat request answered from the response cache carries the answer
\* that an earlier completion of the same question stored, with status 200
\* and source "cache", and has made no retrieval call and no LLM call.
C15_CacheHitReturnsStoredAnswer ==
  \A c \in Chats :
    CacheHit(c) =>
      /\ cresp[c].status = 200
      /\ ccalls[c] = NoCalls
      /\ \E d \in Chats \ {c} :
           /\ Completed(d)
           /\ cq[d] = cq[c]
           /\ cresp[d].answer = cresp[c].answer

\* A request answered from the cache after another one completed the same
\* question with an answer of the LLM.
C15_Witness ==
  \E c \in Chats :
    /\ CacheHit(c)
    /\ cresp[c].answer \in Answers

\* The LLM request of handler c failed: askOllama gave its canned string,
\* which the handler sent.
LlmFailed(c) ==
  /\ cpc[c] = "done"
  /\ ccalls[c].llm = 1
  /\ cresp[c].answer = LlmErrorAnswer

\* C16: when the generation by the LLM fails, the chat handler responds
\* without an HTTP failure status, with the canned error answer and with
\* source null.
C16_LlmFailureNullSource ==
  \A c \in Chats :
    LlmFailed(c) => cresp[c].status = 200 /\ cresp[c].source = Null

\* Handler c, asked the empty question, has run its retrieval.
EmptyQuestionRetrieved(c) ==
  /\ cq[c] = <<>>
  /\ ccalls[c].retrieval = 1

\* C17: for the empty question the retrieval returns no chunk and the chat
\* handler answers that no relevant documentation was found, with source
\* null, whatever the embedding backend does and whatever is stored.
C17_EmptyQuestionNoDocs ==
  \A c \in Chats :
    EmptyQuestionRetrieved(c) =>
      /\ cchunks[c] = <<>>
      /\ cresp[c] = [status |-> 200, answer |-> NoDocsAnswer, source |-> Null]

\* Search h returned from its try block, with no query embedding obtained.
LexicalOnly(h) == hpc[h] = "done" /\ hqe[h] = NoEmbedding

\* The stored chunks whose text the keyword regex of the question matches.
LexicalMatches(question) ==
  SelectSeq(chunks, LAMBDA c : RegexMatches(c.text, question))

\* A result with vectorScore 0 and keywordScore 1.
KeywordOnly(r) ==
  r.vectorScore = 0 /\ r.keywordScore = 1 /\ r.combinedScore = 3

\* C18 as stated: without a query embedding hybridSearch returns exactly
\* the lexically matched chunks, each with vectorScore 0 and keywordScore 1.
C18_AllLexicalMatches ==
  \A h \in Searches :
    LexicalOnly(h) =>
      /\ Ids(hres[h]) = Ids(LexicalMatches(hq[h]))
      /\ \A i \in 1..Len(hres[h]) : KeywordOnly(hres[h][i])

\* C18: without a query embedding hybridSearch returns the first topK
\* lexically matched chunks in store order, with or without a stored
\* embedding, each with vectorScore 0 and keywordScore 1.
C18_FirstLexicalMatches ==
  \A h \in Searches :
    LexicalOnly(h) =>
      LET expected == Take(LexicalMatches(hq[h]), hk[h])
      IN /\ Len(hres[h]) = Len(expected)
         /\ \A i \in 1..Len(expected) :
              /\ hres[h][i].id = expected[i].id
              /\ hres[h][i].packageName = expected[i].packageName
              /\ hres[h][i].chunkIndex = expected[i].chunkIndex
              /\ KeywordOnly(hres[h][i])

\* A search without a query embedding that returned a chunk stored without
\* an embedding and left lexical matches out.
C18_Witness ==
  \E h \in Searches :
    /\ LexicalOnly(h)
    /\ hq[h] # <<>>
    /\ \E i \in 1..Len(chunks) :
         chunks[i].id \in Ids(hres[h]) /\ chunks[i].embedding = NoEmbedding
    /\ Len(hres[h]) < Len(LexicalMatches(hq[h]))

\* Result a may stand before result b: by combined score, then by vector
\* score.
RankedBefore(a, b) ==
  \/ a.combinedScore > b.combinedScore
  \/ a.combinedScore = b.combinedScore /\ a.vectorScore >= b.vectorScore

\* C19 as stated: at most K results, by combined score descending, ties by
\* higher vectorScore and then by lower chunkIndex.
C19_TiesByChunkIndex ==
  \A h \in Searches :
    hpc[h] = "done" =>
      /\ Len(hres[h]) <= hk[h]
      /\ \A i, j \in 1..Len(hres[h]) :
           i < j =>
             /\ RankedBefore(hres[h][i], hres[h][j])
             /\ (/\ hres[h][i].combinedScore = hres[h][j].combinedScore
                 /\ hres[h][i].vectorScore = hres[h][j].vectorScore)
                  => hres[h][i].chunkIndex <= hres[h][j].chunkIndex

\* C19: hybridSearch(query, K) returns at most K results, by combined score
\* descending, results of equal combined score by vectorScore descending;
\* results equal in both stand in the order of the merge, whatever their
\* chunkIndex.
C19_RankedByCombinedThenVector ==
  \A h \in Searches :
    hpc[h] = "done" =>
      /\ Len(hres[h]) <= hk[h]
      /\ \A i, j \in 1..Len(hres[h]) :
           i < j => RankedBefore(hres[h][i], hres[h][j])

\* A search that returned K results of which two have the same combined
\* score and different vector scores.
C19_Witness ==
  \E h \in Searches :
    /\ hpc[h] = "done"
    /\ Len(hres[h]) = hk[h]
    /\ \E i, j \in 1..Len(hres[h]) :
         /\ i < j
         /\ hres[h][i].combinedScore = hres[h][j].combinedScore
         /\ hres[h][i].vectorScore > hres[h][j].vectorScore

\* C23: whenever no upstream fetch for filename F is in progress,
\* downloadLocks holds no entry for F, whichever way the fetch ended.
C23_NoLeakedEntry ==
  \A f \in Files :
    downloadLocks[f] # NoLock =>
      \E r \in Tar : FetchInProgress(r) /\ fname[r] = f

\* The tee of handler r fails in this step: its writer errors, or the
\* upstream body errors.
TeeFails(r) ==
  \/ pc[r] = "teeing" /\ pc'[r] \in {"res_only", "stuck"}
  \/ pc[r] = "file_only" /\ pc'[r] \in {"done", "stuck"}

\* C24: when the tee fails in mid-stream, the partially written file is
\* removed from the cache directory and the promise of the download is
\* rejected.
C24_PartialFileRemoved ==
  [][\A r \in Tar :
       TeeFails(r) =>
         /\ ~disk'[fname[r]].exists
         /\ promise'[r] = "rejected"]_vars

\* The handlers, of either route, whose write stream on f is open.
WritersOf(f) == {c \in Ctx : wr[c].open /\ fname[c] = f}

\* C27: at most one on-disk write to a tarball filename is in progress at
\* any time, across the tarball route and POST /api/precache.
C27_OneWriterPerFile ==
  \A f \in Files : Cardinality(WritersOf(f)) <= 1

\* The download of handler r completed: its writer emitted 'finish' and
\* everything its listener starts has run.
DownloadCompleted(r) ==
  /\ promise[r] = "resolved"
  /\ pc[r] = "done"

\* C28: every cache-miss download that completed for a filename of the form
\* <name>-<version>.tgz has invoked verifyPackageIntegrity once with that
\* version, and a Security event of it is recorded.
C28_CompletedDownloadVerified ==
  \A r \in Tar :
    DownloadCompleted(r) /\ VersionMatch(fname[r]) =>
      /\ ver[r].result # Null
      /\ Len(securityLog[r]) = 1
      /\ securityLog[r][1].version = fname[r][Len(fname[r]) - 1]

\* No download and no verification is in progress.
Quiescent ==
  \A c \in Ctx : pc[c] \in {"idle", "done"}

\* Some Package record names file f as its cachedPath.
HasPackageRecord(f) ==
  \E c \in Ctx : \E i \in 1..Len(packages[c]) : packages[c][i].cachedPath = f

\* C29: in every quiescent state each tarball file on disk whose filename
\* yields a version has a Package record, also after a verification that
\* ended in a failure event.
C29_CachedFileHasRecord ==
  Quiescent =>
    \A f \in Files :
      disk[f].exists /\ VersionMatch(f) => HasPackageRecord(f)

\* The verification of c hashed a file whose contents, hashed with the
\* algorithm that the declared integrity names, give the declared integrity.
ContentsMatchDeclared(c) ==
  /\ ver[c].official # NoSum
  /\ ver[c].actual # NoSum
  /\ calculateChecksum(ver[c].actual[2], ver[c].official[1]) = ver[c].official

\* C30: a file whose contents match the declared integrity under the
\* algorithm of its prefix is reported verified and is not deleted as a
\* threat, whichever algorithm upstream declared.
C30_DeclaredAlgorithmUsed ==
  \A c \in Ctx :
    ContentsMatchDeclared(c) =>
      /\ pc[c] \notin {"v_remove", "v_log_threat"}
      /\ ver[c].result # "threat"

\* File f is fully cached: it is on disk with a whole body and no write
\* stream on it is open.
FullyCached(f) ==
  /\ disk[f].exists
  /\ Len(disk[f].data) = FileLen
  /\ WritersOf(f) = {}

\* Handler r is received in this step, for a file that is fully cached.
ReceivedForCached(r) ==
  /\ pc[r] = "idle"
  /\ pc'[r] # "idle"
  /\ FullyCached(fname'[r])

\* Handler r, streaming from disk, takes a step.
StreamsOn(r) == pc[r] = "streaming" /\ pc'[r] # "streaming"

\* C22: a request for a fully cached file is served from disk: it starts
\* to stream with status 200 and ends with the bytes of the file, and it
\* issues no upstream request, runs no verification and creates no Security
\* event and no Package record.
C22_CacheHitServedFromDisk ==
  [][\A r \in Tar :
       /\ ReceivedForCached(r) =>
            /\ pc'[r] = "streaming"
            /\ resp'[r].status = 200
            /\ <<disk, downloadLocks, promise, waitq, wr, ver, securityLog,
                 packages>>' =
               <<disk, downloadLocks, promise, waitq, wr, ver, securityLog,
                 packages>>
       /\ StreamsOn(r) =>
            /\ pc'[r] = "done"
            /\ resp'[r].ended
            /\ FullyCached(fname[r]) => resp'[r].body = disk[fname[r]].data
            /\ <<disk, downloadLocks, promise, waitq, wr, ver, securityLog,
                 packages>>' =
               <<disk, downloadLocks, promise, waitq, wr, ver, securityLog,
                 packages>>]_vars

\* A request answered with the bytes of the file that was cached before the
\* server started, while nothing was ever downloaded.
C22_Witness ==
  \E r \in Tar :
    /\ pc[r] = "done"
    /\ resp[r].status = 200
    /\ resp[r].ended
    /\ resp[r].body = GoodContent
    /\ \A q \in Tar : promise[q] = "none" /\ wr[q] = NoWriter

\* The promise of o settles in this step and the handlers that awaited it
\* are resumed.
Resumes(o) == waitq[o] # <<>> /\ waitq'[o] = <<>>

C26_WaitsAtMostOnce ==
  [][\A r \in Tar :
       /\ (pc'[r] = "waiting" /\ pc[r] # "waiting") => pc[r] = "idle"
       /\ \A o \in Tar :
            (Resumes(o) /\ r \in Resumed(o)) =>
              /\ pc'[r] \in {"streaming", "fetching"}
              /\ \A y \in Tar : r \notin Range(waitq'[y])
       /\ (pc[r] = "waiting" /\ \A o \in Tar : ~Resumes(o)) =>
            pc'[r] = "waiting"]_vars

\* A handler that awaited the promise of another one runs its own download
\* while a third handler awaits the promise it registered.
C26_Witness ==
  \E o, r, x \in Tar :
    /\ promise[o] = "rejected"
    /\ pc[r] = "fetching" /\ promise[r] = "pending"
    /\ pc[x] = "waiting" /\ x \in Resumed(r)

\* The client of handler r closed the connection during the tee.
Disconnected(r) == pc[r] = "file_only"

\* The writer of r received the whole upstream body and emitted 'finish':
\* its listener resolved the promise and went on to verification or to the
\* Package record.
WriterFinished(r) ==
  /\ wr[r].pos = FileLen /\ ~wr[r].open
  /\ promise[r] = "resolved"
  /\ pc[r] \in {"v_official", "pkg_create"}

\* The download of r failed on the upstream body or on the writer.
TeeFailed(r) == pc[r] = "stuck" \/ promise[r] = "rejected"

OfficialMissing(c) == pc[c] = "v_catch" /\ ver[c].official = NoSum

ChunkSetOf(name) ==
  LET mine == SelectSeq(chunks, LAMBDA c : c.packageName = name)
  IN [i \in 1..Len(mine) |->
        [chunkIndex |-> mine[i].chunkIndex, text |-> mine[i].text]]

\* set is the whole chunk set of one document.
CompleteChunkSet(set) ==
  \E t \in Texts :
    LET cs == chunkDocument(t, ChunkSize, Overlap)
    IN set = [i \in 1..Len(cs) |-> [chunkIndex |-> i - 1, text |-> cs[i]]]

\* C32: a re-ingest replaces the chunk set of a package atomically: from a
\* state where the package has a complete chunk set, every step leaves it
\* with that set or with another complete one, so that no retrieval and no
\* failure part-way finds the package with neither.
C32_AtomicReplace ==
  [][\A name \in PackageNames :
       CompleteChunkSet(ChunkSetOf(name)) =>
         \/ ChunkSetOf(name)' = ChunkSetOf(name)
         \/ CompleteChunkSet(ChunkSetOf(name)')]_vars

\* The Package.create of handler r is rejected in this step.
PackageWriteFails(r) ==
  /\ pc[r] = "pkg_create"
  /\ pc'[r] # "pkg_create"
  /\ packages'[r] = packages[r]

\* C33: a persistence write that fails makes its own operation fail and
\* nothing more: a rejected Package.create after a download is caught, it
\* is never a promise rejection that nobody handles.
C33_WriteFailureIsHandled ==
  [][\A r \in Tar : PackageWriteFails(r) => unhandled' = unhandled]_vars

\* Chat handler c runs findRelevantChunks in this step with the embedding of
\* its question available, and some stored chunk contains a keyword of the
\* question.
RetrievesWithLexicalMatch(c) ==
  /\ cpc[c] = "retrieve"
  /\ cpc'[c] # "retrieve"
  /\ embeddingCache'[cq[c]].present
  /\ Keywords(cq[c]) # {}
  /\ LexicalMatches(cq[c]) # <<>>

\* C34: the retrieval of /api/chat returns an empty result only when the
\* semantic pass and the lexical pass both find nothing: with the query
\* embedding available and a stored chunk that matches the question
\* lexically, the result is not empty.
C34_LexicalMatchReturned ==
  [][\A c \in Chats :
       RetrievesWithLexicalMatch(c) => cchunks'[c] # <<>>]_vars

\* The ceiling of a / b, for b > 0.
CeilDiv(a, b) == -((-a) \div b)

\* The call of chunkDocument has returned.
Chunked == kpc = "done"

\* C35 as stated: chunkDocument returns ceil((L - overlap) / (chunkSize -
\* overlap)) chunks for a text of length L >= 1 and none for the empty text.
C35_CountFromUncovered ==
  Chunked =>
    Len(kchunks) = IF ktext = <<>> THEN 0
                   ELSE CeilDiv(Len(ktext) - koverlap, ksize - koverlap)

\* C35: chunkDocument returns one chunk per start position 0, step, 2 * step,
\* ... below L, with step = chunkSize - overlap: ceil(L / (chunkSize -
\* overlap)) chunks, none for the empty text.
C35_CountFromLength ==
  Chunked => Len(kchunks) = CeilDiv(Len(ktext), ksize - koverlap)

\* A text that one window covers exactly, chunked with an overlap: the
\* array holds a second chunk, which repeats the last units of the first.
C35_Witness ==
  /\ Chunked
  /\ Len(ktext) = ksize /\ koverlap >= 1
  /\ Len(kchunks) = 2
  /\ kchunks[1] = ktext

\* The chunk without its leading n code units.
DropLeading(chunk, n) == SubSeq(chunk, Min(n, Len(chunk)) + 1, Len(chunk))

\* The chunks in order, each but the first without its leading overlap.
RECURSIVE Rejoined(_, _, _)
Rejoined(cs, k, overlap) ==
  IF k > Len(cs) THEN <<>>
  ELSE (IF k = 1 THEN cs[1] ELSE DropLeading(cs[k], overlap))
         \o Rejoined(cs, k + 1, overlap)

\* C36: for every text and chunkSize > overlap >= 0, the chunks of
\* chunkDocument, concatenated in order after dropping from each but the
\* first its leading overlap code units, give the text back.
C36_ChunkerRoundTrip ==
  Chunked => Rejoined(kchunks, 1, koverlap) = ktext

\* A text of three chunks and more with an overlap, whose last chunk is no
\* longer than the overlap.
C36_Witness ==
  /\ Chunked
  /\ koverlap >= 1
  /\ Len(kchunks) >= 3
  /\ Len(kchunks[Len(kchunks)]) <= koverlap
  /\ \E i, j \in 1..Len(ktext) : ktext[i] # ktext[j]

\* The process was restarted while a handler was under way.
Restarted == \E c \in Ctx : pc[c] = "killed"

\* Some Package record for file f says verified.
HasVerifiedRecord(f) ==
  \E c \in Ctx : \E i \in 1..Len(packages[c]) :
    packages[c][i].cachedPath = f /\ packages[c][i].verified

\* File f was left partially written: it exists, holds less than a whole
\* body, no write stream on it is open, and no verified Package record
\* belongs to it.
LeftPartial(f) ==
  /\ disk[f].exists
  /\ Len(disk[f].data) < FileLen
  /\ WritersOf(f) = {}
  /\ ~HasVerifiedRecord(f)

\* C37: after a restart a tarball left partially written by an interrupted
\* download is never served as a cache hit.
C37_PartialNotServedAfterRestart ==
  [][\A r \in Tar :
       (Restarted /\ pc[r] = "idle" /\ pc'[r] = "streaming") =>
         ~LeftPartial(fname'[r])]_vars

\* Handler c gets its answer from askOllama in this step and its cache
\* write is not rejected.
Generates(c) ==
  /\ cpc[c] = "generate"
  /\ cpc'[c] = "done"
  /\ faults' = faults

\* Handler d is received in this step, its Cache.findOne is not rejected,
\* and the response cache holds an entry for its question.
ReceivedWithEntry(d) ==
  /\ cpc[d] = "idle"
  /\ cpc'[d] # "idle"
  /\ faults' = faults
  /\ cache[cq'[d]].present

\* Handler d is answered in this step with the stored string and source
\* 'cache', with no retrieval and no call of the LLM.
AnsweredWithEntry(d) ==
  /\ cpc'[d] = "done"
  /\ cresp'[d] = [status |-> 200, answer |-> cache[cq'[d]].value,
                  source |-> "cache"]
  /\ ccalls'[d] = NoCalls

\* C38 as stated: a later identical question is answered with the stored
\* string from the cache, whatever string askOllama had returned.
C38_EveryAnswerReused ==
  [][\A d \in Chats : ReceivedWithEntry(d) => AnsweredWithEntry(d)]_vars

\* C38: every string askOllama returns for a question with retrieved
\* context, the canned error string included, is stored in the response
\* cache with a TTL of 24 hours and stays there until the TTL has run out;
\* a later identical question is answered from the cache with the stored
\* string, without calling the LLM, when that string is not empty.
C38_AnswerCachedAndReused ==
  [][/\ \A c \in Chats :
          Generates(c) =>
            /\ cresp'[c].status = 200
            /\ cresp'[c].answer \in Answers \cup {LlmErrorAnswer}
            /\ cache'[cq[c]] = [present |-> TRUE, value |-> cresp'[c].answer,
                                expiresAt |-> now + ResponseTtl]
     /\ \A q \in Questions :
          (cache[q].present /\ now < cache[q].expiresAt) => cache'[q].present
     /\ \A d \in Chats :
          (ReceivedWithEntry(d) /\ cache[cq'[d]].value # "") =>
            AnsweredWithEntry(d)]_vars

\* The canned string of a failed LLM request was sent to one client and
\* later served from the cache to another.
C38_Witness ==
  \E c, d \in Chats :
    /\ LlmFailed(c)
    /\ CacheHit(d) /\ cq[d] = cq[c]
    /\ cresp[d].answer = LlmErrorAnswer
    /\ ccalls[d] = NoCalls

\* Handler r rejects the promise of its download in this step.
RejectsDownload(r) == promise[r] = "pending" /\ promise'[r] = "rejected"

\* C39: whenever a tarball handler rejects the promise of its download, some
\* rejection handler is attached to it: the step leaves no rejected promise
\* that nobody handles, also when no other request awaits the download.
C39_RejectionHandled ==
  [][\A r \in Tar : RejectsDownload(r) => unhandled' = unhandled]_vars

====
